---- MODULE Spec2Model ----
(***************************************************************************)
(* Model of the incremental ingestion core of SI201FinalProject: the three *)
(* ingestion runners (gather_colleges, gather_universities,                *)
(* gather_weather), their fetchers and Dedup-and-Insert controllers, and   *)
(* the get-or-create lookups of database_setup.                            *)
(*                                                                         *)
(* Encoding.  Every Python / SQL scalar that is stored or compared is a    *)
(* string; Python None and SQL NULL are the string None, and the empty     *)
(* string is "".  Row identifiers and dates are decimal strings made with  *)
(* ToString.  A table is the sequence of its rows in insertion order       *)
(* (rowid order), so duplicate rows are representable and the uniqueness   *)
(* constraints of the DDL are modelled by sql_insert, not by the encoding. *)
(***************************************************************************)
EXTENDS Integers, Sequences, FiniteSets, TLC

VARIABLES
    unit,               \* "main": the runs; else the function a unit specification applies,
                        \* or the kind of runs a specification makes ("core", "steady", "grow")
    database,           \* the file this store is: DATABASE_NAME of the runs that open it
    countries,          \* table countries        (database_setup.py:8)
    state_provinces,    \* table state_provinces  (database_setup.py:16)
    cities,             \* table cities           (database_setup.py:25)
    us_colleges,        \* table us_colleges      (gather_colleges.py:127)
    college_financials, \* table college_financials (gather_colleges.py:135)
    universities_world, \* table universities_world (database_setup.py:67)
    daily_weather,      \* table daily_weather    (database_setup.py:54)
    last,               \* what the last operation was, its arguments and outcome
    conns,              \* the connections open on the store, each with the place
                        \* its controller call has reached and its open transaction
    upstream            \* what the APIs answer when they answer the same to every
                        \* run of a behaviour: the college page, the list of each
                        \* country, the daily weather

vars == <<unit, database, countries, state_provinces, cities, us_colleges, college_financials,
          universities_world, daily_weather, last, conns, upstream>>

lookupVars == <<countries, state_provinces, cities>>
runnerVars == <<us_colleges, college_financials, universities_world, daily_weather>>

-----------------------------------------------------------------------------
(* Python values *)

None == "None"

\* Python truthiness of a str-or-None value: `if not name`
Truthy(v) == v # None /\ v # ""

\* the rows of a table as a set of indices
Rows(tbl) == 1..Len(tbl)

\* SELECT ... WHERE <col> = key, in rowid order: the indices that match
Matching(tbl, col, key) == {i \in Rows(tbl) : tbl[i][col] = key}

Min(S) == CHOOSE x \in S : \A y \in S : x <= y

\* number of rows of tbl whose column col holds key
CountKey(tbl, col, key) == Cardinality(Matching(tbl, col, key))

\* AUTOINCREMENT: no row is ever deleted, so the next id is the row count + 1
NextId(tbl) == ToString(Len(tbl) + 1)

-----------------------------------------------------------------------------
(* database_setup.py: the get-or-create lookups *)

\* A name TEXT UNIQUE NOT NULL column: INSERT raises IntegrityError when the
\* name is already there.  [ok, tbl]
sql_insert_unique(tbl, col, row) ==
    IF Matching(tbl, col, row[col]) # {}
    THEN [ok |-> FALSE, tbl |-> tbl]
    ELSE [ok |-> TRUE, tbl |-> Append(tbl, row)]

\* the body shared by the three lookups: SELECT id WHERE name = ?, fetchone,
\* else INSERT, commit, lastrowid.  [tbl, ret, raised]
GetOrCreateNoSelect(tbl, name, row) ==
    IF ~Truthy(name)
    THEN [tbl |-> tbl, ret |-> None, raised |-> FALSE]
    ELSE LET ins == sql_insert_unique(tbl, "name", row)
         IN  IF ins.ok
             THEN [tbl |-> ins.tbl, ret |-> row.id, raised |-> FALSE]
             ELSE [tbl |-> tbl, ret |-> None, raised |-> TRUE]

GetOrCreateNoGuard(tbl, name, row) ==
    LET hits == Matching(tbl, "name", name)
    IN  IF hits # {}
        THEN [tbl |-> tbl, ret |-> tbl[Min(hits)].id, raised |-> FALSE]
        ELSE [tbl |-> Append(tbl, row), ret |-> row.id, raised |-> FALSE]

GetOrCreate(tbl, name, row) ==
    IF ~Truthy(name)
    THEN [tbl |-> tbl, ret |-> None, raised |-> FALSE]
    ELSE LET hits == Matching(tbl, "name", name)
         IN  IF hits # {}
             THEN [tbl |-> tbl, ret |-> tbl[Min(hits)].id, raised |-> FALSE]
             ELSE LET ins == sql_insert_unique(tbl, "name", row)
                  IN  IF ins.ok
                      THEN [tbl |-> ins.tbl, ret |-> row.id, raised |-> FALSE]
                      ELSE [tbl |-> tbl, ret |-> None, raised |-> TRUE]

get_or_create_country(tbl, country_name, alpha_two_code) ==
    GetOrCreate(tbl, country_name,
        [id |-> NextId(tbl), name |-> country_name, alpha_two_code |-> alpha_two_code])

get_or_create_state_province(tbl, state_name, country_id) ==
    GetOrCreate(tbl, state_name,
        [id |-> NextId(tbl), name |-> state_name, country_id |-> country_id])

get_or_create_city(tbl, city_name) ==
    GetOrCreate(tbl, city_name, [id |-> NextId(tbl), name |-> city_name])

-----------------------------------------------------------------------------
(* The HTTP layer the fetchers call: what requests.get / Response can do *)

\* the exception classes requests.get, raise_for_status and json() raise
RequestsGetExceptions == {"ConnectionError", "Timeout", "ChunkedEncodingError"}

\* subclasses of requests.exceptions.RequestException
IsRequestException(exc) ==
    exc \in {"ConnectionError", "Timeout", "ChunkedEncodingError", "HTTPError"}

\* An HTTP exchange: exc is the exception requests.get raises (None: it returns a
\* Response), status the status code, json_ok whether the body parses as JSON,
\* body the parsed body.
HttpExchange(exc, status, json_ok, body) ==
    [exc |-> exc, status |-> status, json_ok |-> json_ok, body |-> body]

\* Response.raise_for_status(): HTTPError for 4xx and 5xx
raises_for_status(status) == 400 <= status /\ status < 600

\* what a fetcher call ends with: a returned list, or an exception leaving it
Returned(list) == [raised |-> FALSE, exc |-> None, value |-> list]
Raised(exc) == [raised |-> TRUE, exc |-> exc, value |-> <<>>]

-----------------------------------------------------------------------------
(* gather_universities.py *)

MAX_INSERT_PER_RUN == 25

COUNTRIES_TO_FETCH ==
    << "United States", "Canada", "United Kingdom", "Germany", "France",
       "Australia", "Japan", "China", "India", "Brazil" >>

fetch_universities_by_country(x) ==
    IF x.exc # None
    THEN \* except ChunkedEncodingError / except RequestException
         IF x.exc = "ChunkedEncodingError" \/ IsRequestException(x.exc)
         THEN Returned(<<>>)
         ELSE Raised(x.exc)
    ELSE IF raises_for_status(x.status)
    THEN \* HTTPError is a RequestException
         IF IsRequestException("HTTPError") THEN Returned(<<>>) ELSE Raised("HTTPError")
    ELSE IF ~x.json_ok
    THEN Returned(<<>>)          \* except ValueError
    ELSE Returned(x.body)

\* web_pages[0] if web_pages else None
FirstOrNone(list) == IF list = <<>> THEN None ELSE list[1]

university_row(tbl, uni) ==
    [id |-> NextId(tbl), name |-> uni.name, country |-> uni.country,
     alpha_two_code |-> uni.alpha_two_code, state_province |-> uni.state_province,
     web_page |-> FirstOrNone(uni.web_pages), domain |-> FirstOrNone(uni.domains)]

\* one iteration of the loop of store_universities on record uni, the quota
\* test already passed: [tbl, inserted]
store_university_Upsert(tbl, uni) ==
    IF ~Truthy(uni.name)
    THEN [tbl |-> tbl, inserted |-> 0]
    ELSE IF Matching(tbl, "name", uni.name) # {}
    THEN [tbl |-> [i \in Rows(tbl) |->
                     IF tbl[i].name = uni.name
                     THEN [university_row(tbl, uni) EXCEPT !.id = tbl[i].id]
                     ELSE tbl[i]],
          inserted |-> 0]
    ELSE [tbl |-> Append(tbl, university_row(tbl, uni)), inserted |-> 1]

store_university_CountsSkips(tbl, uni) ==
    IF ~Truthy(uni.name)
    THEN [tbl |-> tbl, inserted |-> 0]
    ELSE IF Matching(tbl, "name", uni.name) # {}
    THEN [tbl |-> tbl, inserted |-> 1]
    ELSE [tbl |-> Append(tbl, university_row(tbl, uni)), inserted |-> 1]

store_university(tbl, uni) ==
    IF ~Truthy(uni.name)
    THEN [tbl |-> tbl, inserted |-> 0]                      \* if not name: continue
    ELSE IF Matching(tbl, "name", uni.name) # {}
    THEN [tbl |-> tbl, inserted |-> 0]                      \* skip duplicate
    ELSE LET ins == sql_insert_unique(tbl, "name", university_row(tbl, uni))
         IN  IF ins.ok
             THEN [tbl |-> ins.tbl, inserted |-> 1]
             ELSE [tbl |-> tbl, inserted |-> 0]             \* except IntegrityError

\* the quota test at the head of each iteration: TRUE means break
quota_reached_OffByOne(inserted_count) == inserted_count > MAX_INSERT_PER_RUN

quota_reached(inserted_count) == inserted_count >= MAX_INSERT_PER_RUN

RECURSIVE store_universities_from(_, _, _, _)
store_universities_from(tbl, uni_list, i, inserted_count) ==
    IF i > Len(uni_list) \/ quota_reached(inserted_count)
    THEN [tbl |-> tbl, ret |-> inserted_count]
    ELSE \* step is bound, not defined by LET: TLC then computes it once
         CHOOSE r \in {store_universities_from(step.tbl, uni_list, i + 1,
                                                 inserted_count + step.inserted) :
                           step \in {store_university(tbl, uni_list[i])}} : TRUE

store_universities_FromSecond(tbl, uni_list) ==
    store_universities_from(tbl, uni_list, 2, 0)

\* store_universities(conn, uni_list): [tbl, ret]
store_universities(tbl, uni_list) == store_universities_from(tbl, uni_list, 1, 0)

get_current_count(tbl) == Len(tbl)

TARGET_TOTAL == 100

target_reached_Above(current_count) == current_count > TARGET_TOTAL

\* if current_count >= 100: print, close and return before any fetch
target_reached(current_count) == current_count >= TARGET_TOTAL

runs_remaining_Floor(total) == (TARGET_TOTAL - total) \div MAX_INSERT_PER_RUN

\* runs_remaining = (100 - total + 24) // 25
runs_remaining(total) == (TARGET_TOTAL - total + (MAX_INSERT_PER_RUN - 1)) \div MAX_INSERT_PER_RUN

country_index_ByTarget(current_count) ==
    (current_count \div TARGET_TOTAL) % Len(COUNTRIES_TO_FETCH)

country_index_ByCount(current_count) == current_count % Len(COUNTRIES_TO_FETCH)

\* country_index = (current_count // 25) % len(COUNTRIES_TO_FETCH)
country_index(current_count) ==
    (current_count \div MAX_INSERT_PER_RUN) % Len(COUNTRIES_TO_FETCH)

-----------------------------------------------------------------------------
(* gather_colleges.py *)

PER_PAGE == 100

\* requests.get and response.json() are called outside any try block
fetch_college_page(x) ==
    IF x.exc # None
    THEN Raised(x.exc)
    ELSE IF x.status # 200
    THEN Returned(<<>>)
    ELSE IF ~x.json_ok
    THEN Raised("JSONDecodeError")
    ELSE Returned(x.body.results)

us_colleges_row(college) ==
    [id |-> college.id, name |-> college.name, city |-> college.city,
     state |-> college.state, zip |-> college.zip, ownership |-> college.ownership,
     predominant_degree |-> college.predominant_degree, lat |-> college.lat,
     lon |-> college.lon, student_size |-> college.student_size]

college_financials_row(college) ==
    [id |-> college.id, in_state_tuition |-> college.in_state_tuition,
     out_state_tuition |-> college.out_state_tuition,
     academic_year_cost |-> college.academic_year_cost,
     completion_rate |-> college.completion_rate,
     earnings_10yr |-> college.earnings_10yr]

store_college_CountsSkips(colleges, financials, college) ==
    IF college.id = None
    THEN [colleges |-> colleges, financials |-> financials, inserted |-> 0,
          raised |-> FALSE]
    ELSE IF Matching(colleges, "id", college.id) # {}
    THEN [colleges |-> colleges, financials |-> financials, inserted |-> 1,
          raised |-> FALSE]
    ELSE [colleges |-> Append(colleges, us_colleges_row(college)),
          financials |-> Append(financials, college_financials_row(college)),
          inserted |-> 1, raised |-> FALSE]

\* one iteration of the loop of store_college_page, the quota test already
\* passed: [colleges, financials, inserted, raised]
store_college(colleges, financials, college) ==
    IF college.id = None
    THEN [colleges |-> colleges, financials |-> financials, inserted |-> 0,
          raised |-> FALSE]                                 \* continue
    ELSE IF Matching(colleges, "id", college.id) # {}
    THEN [colleges |-> colleges, financials |-> financials, inserted |-> 0,
          raised |-> FALSE]                                 \* continue
    ELSE LET c == sql_insert_unique(colleges, "id", us_colleges_row(college))
             f == sql_insert_unique(financials, "id", college_financials_row(college))
         IN  IF c.ok /\ f.ok
             THEN [colleges |-> c.tbl, financials |-> f.tbl, inserted |-> 1,
                   raised |-> FALSE]
             ELSE \* IntegrityError is not caught here
                  [colleges |-> colleges, financials |-> financials, inserted |-> 0,
                   raised |-> TRUE]

\* the iterations lo..hi of the loop of store_college_page, from the state `at`
\* that the iterations before lo left: [colleges, financials, ret, raised].  A
\* range of iterations is its first half and then its second half, which keeps
\* the evaluation of a page of a hundred records shallow; an iteration after the
\* break or after an uncaught exception does nothing.
RECURSIVE store_college_page_from(_, _, _, _)
store_college_page_from(at, college_list, lo, hi) ==
    IF lo > hi \/ at.raised \/ quota_reached(at.ret)
    THEN at
    ELSE IF lo = hi
    THEN LET step == store_college(at.colleges, at.financials, college_list[lo])
         IN  IF step.raised
             THEN [at EXCEPT !.raised = TRUE]
             ELSE [colleges |-> step.colleges, financials |-> step.financials,
                   ret |-> at.ret + step.inserted, raised |-> FALSE]
    ELSE \* half is bound, not defined by LET: TLC then computes it once
         CHOOSE r \in {store_college_page_from(half, college_list,
                                                ((lo + hi) \div 2) + 1, hi) :
                           half \in {store_college_page_from(at, college_list, lo,
                                                              (lo + hi) \div 2)}} : TRUE

\* store_college_page(conn, college_list): [colleges, financials, ret, raised].
\* The only commit is after the loop, so an exception inside the loop leaves the
\* process with nothing committed: the tables of the call's start.
store_college_page(colleges, financials, college_list) ==
    LET r == store_college_page_from(
                 [colleges |-> colleges, financials |-> financials, ret |-> 0,
                  raised |-> FALSE], college_list, 1, Len(college_list))
    IN  IF r.raised
        THEN [colleges |-> colleges, financials |-> financials, ret |-> 0,
              raised |-> TRUE]
        ELSE [colleges |-> r.colleges, financials |-> r.financials,
              ret |-> r.ret, raised |-> FALSE]

\* return current_count // 100
get_next_page_to_fetch_OneBased(colleges) == (Len(colleges) \div 100) + 1

get_next_page_to_fetch(colleges) == Len(colleges) \div 100

-----------------------------------------------------------------------------
(* gather_weather.py *)

CANDIDATE_LIMIT == 5

PARTIAL_BELOW == 30

\* temp_maxs[i] if i < len(temp_maxs) else None   (i is 1-based here)
ItemOrNone(list, i) == IF i <= Len(list) THEN list[i] ELSE None

weather_records_Shortest(daily) ==
    [i \in 1..Min({Len(daily.time), Len(daily.temperature_2m_max),
                   Len(daily.temperature_2m_min), Len(daily.precipitation_sum)}) |->
        [date |-> daily.time[i],
         temp_max |-> daily.temperature_2m_max[i],
         temp_min |-> daily.temperature_2m_min[i],
         precip_sum |-> daily.precipitation_sum[i]]]

\* the reshaping of the column-oriented "daily" object into one record per date
weather_records(daily) ==
    [i \in 1..Len(daily.time) |->
        [date |-> daily.time[i],
         temp_max |-> ItemOrNone(daily.temperature_2m_max, i),
         temp_min |-> ItemOrNone(daily.temperature_2m_min, i),
         precip_sum |-> ItemOrNone(daily.precipitation_sum, i)]]

\* the whole body is inside try ... except Exception: return []
fetch_weather_for_college(x) ==
    IF x.exc # None
    THEN Returned(<<>>)
    ELSE IF x.status # 200
    THEN Returned(<<>>)
    ELSE IF ~x.json_ok
    THEN Returned(<<>>)
    ELSE Returned(weather_records(x.body.daily))

\* SELECT 1 FROM daily_weather WHERE college_id = ? AND date = ?
MatchingWeather(tbl, college_id, date) ==
    {i \in Rows(tbl) : tbl[i].college_id = college_id /\ tbl[i].date = date}

\* UNIQUE(college_id, date): INSERT raises IntegrityError on a second row
sql_insert_weather(tbl, row) ==
    IF MatchingWeather(tbl, row.college_id, row.date) # {}
    THEN [ok |-> FALSE, tbl |-> tbl]
    ELSE [ok |-> TRUE, tbl |-> Append(tbl, row)]

daily_weather_row(tbl, college_id, record) ==
    [id |-> NextId(tbl), college_id |-> college_id, date |-> record.date,
     temp_max |-> record.temp_max, temp_min |-> record.temp_min,
     precip_sum |-> record.precip_sum]

\* one iteration of the loop of store_weather, the quota test already passed
store_weather_record_NoDedup(tbl, college_id, record) ==
    IF ~Truthy(record.date)
    THEN [tbl |-> tbl, inserted |-> 0]
    ELSE [tbl |-> Append(tbl, daily_weather_row(tbl, college_id, record)),
          inserted |-> 1]

store_weather_record_Replace(tbl, college_id, record) ==
    IF ~Truthy(record.date)
    THEN [tbl |-> tbl, inserted |-> 0]
    ELSE IF MatchingWeather(tbl, college_id, record.date) # {}
    THEN [tbl |-> [i \in Rows(tbl) |->
                     IF i \in MatchingWeather(tbl, college_id, record.date)
                     THEN [daily_weather_row(tbl, college_id, record)
                              EXCEPT !.id = tbl[i].id]
                     ELSE tbl[i]],
          inserted |-> 0]
    ELSE [tbl |-> Append(tbl, daily_weather_row(tbl, college_id, record)),
          inserted |-> 1]

store_weather_record(tbl, college_id, record) ==
    IF ~Truthy(record.date)
    THEN [tbl |-> tbl, inserted |-> 0]                      \* if not date: continue
    ELSE IF MatchingWeather(tbl, college_id, record.date) # {}
    THEN [tbl |-> tbl, inserted |-> 0]                      \* already exists, skip
    ELSE LET ins == sql_insert_weather(tbl, daily_weather_row(tbl, college_id, record))
         IN  IF ins.ok
             THEN [tbl |-> ins.tbl, inserted |-> 1]
             ELSE [tbl |-> tbl, inserted |-> 0]             \* except IntegrityError

RECURSIVE store_weather_from(_, _, _, _, _)
store_weather_from(tbl, college_id, weather_list, i, inserted_count) ==
    IF i > Len(weather_list) \/ quota_reached(inserted_count)
    THEN [tbl |-> tbl, ret |-> inserted_count]
    ELSE \* step is bound, not defined by LET: TLC then computes it once
         CHOOSE r \in {store_weather_from(step.tbl, college_id, weather_list, i + 1,
                                            inserted_count + step.inserted) :
                           step \in {store_weather_record(tbl, college_id,
                                                           weather_list[i])}} : TRUE

\* store_weather(conn, college_id, weather_list): [tbl, ret]
store_weather(tbl, college_id, weather_list) ==
    store_weather_from(tbl, college_id, weather_list, 1, 0)

has_coords_Either(college) == college.lat # None \/ college.lon # None

\* lat IS NOT NULL AND lon IS NOT NULL
has_coords(college) == college.lat # None /\ college.lon # None

weather_count(weather, college_id) == CountKey(weather, "college_id", college_id)

\* the first `limit` elements of the indices in S, in table (rowid) order, the
\* order in which SQLite scans us_colleges when the query has no ORDER BY
RECURSIVE FirstN(_, _)
FirstN(S, limit) ==
    IF S = {} \/ limit = 0 THEN <<>>
    ELSE <<Min(S)>> \o FirstN(S \ {Min(S)}, limit - 1)

get_colleges_needing_weather_NoCoordTest(colleges, weather, limit) ==
    LET S == {i \in Rows(colleges) : weather_count(weather, colleges[i].id) = 0}
        idx == FirstN(S, limit)
    IN  [k \in 1..Len(idx) |-> colleges[idx[k]]]

\* lat/lon NOT NULL and id NOT IN (SELECT DISTINCT college_id FROM daily_weather)
get_colleges_needing_weather(colleges, weather, limit) ==
    LET S == {i \in Rows(colleges) :
                 /\ has_coords(colleges[i])
                 /\ weather_count(weather, colleges[i].id) = 0}
        idx == FirstN(S, limit)
    IN  [k \in 1..Len(idx) |-> colleges[idx[k]]]

\* lat/lon NOT NULL, GROUP BY c.id HAVING weather_count > 0 AND weather_count < 30
get_colleges_with_partial_weather(colleges, weather, limit) ==
    LET S == {i \in Rows(colleges) :
                 /\ has_coords(colleges[i])
                 /\ weather_count(weather, colleges[i].id) > 0
                 /\ weather_count(weather, colleges[i].id) < PARTIAL_BELOW}
        idx == FirstN(S, limit)
    IN  [k \in 1..Len(idx) |-> colleges[idx[k]]]

\* remaining_quota = MAX_INSERT_PER_RUN - total_inserted_this_run
remaining_quota_Whole(total_inserted_this_run) == MAX_INSERT_PER_RUN

remaining_quota(total_inserted_this_run) == MAX_INSERT_PER_RUN - total_inserted_this_run

\* weather_data[:remaining_quota]
Slice(list, n) == SubSeq(list, 1, IF n < Len(list) THEN n ELSE Len(list))

\* one store call as its caller saw it
StoreCall(key, offered, before_len, after_len, ret) ==
    [key |-> key, offered |-> offered, before_len |-> before_len,
     after_len |-> after_len, ret |-> ret]

\* one fetch as its caller saw it: what was asked for, how the exchange went
\* and what the fetcher ended with
Fetch(key, x, outcome) ==
    [key |-> key, exc |-> x.exc, status |-> x.status, json_ok |-> x.json_ok,
     outcome |-> outcome]

\* the loop of main over the candidate colleges; fetched[k] is the HTTP exchange
\* of the fetch for the k-th candidate.  [tbl, total, calls, fetches, raised]
RECURSIVE weather_loop(_, _, _, _, _, _, _)
weather_loop(tbl, colleges, fetched, k, total_inserted_this_run, calls, fetches) ==
    IF k > Len(colleges) \/ quota_reached(total_inserted_this_run)
    THEN [tbl |-> tbl, total |-> total_inserted_this_run, calls |-> calls,
          fetches |-> fetches, raised |-> FALSE]
    ELSE \* f and st are bound, not defined by LET: TLC then computes them once
         CHOOSE r \in
             {IF f.raised
              THEN [tbl |-> tbl, total |-> total_inserted_this_run, calls |-> calls,
                    fetches |-> Append(fetches, Fetch(colleges[k].id, fetched[k], f)),
                    raised |-> TRUE]
              ELSE IF f.value = <<>>
              THEN weather_loop(tbl, colleges, fetched, k + 1,
                                total_inserted_this_run, calls,
                                Append(fetches, Fetch(colleges[k].id, fetched[k], f)))
              ELSE CHOOSE q \in
                       {weather_loop(st.tbl, colleges, fetched, k + 1,
                                     total_inserted_this_run + st.ret,
                                     Append(calls,
                                            StoreCall(colleges[k].id,
                                                Slice(f.value,
                                                      remaining_quota(
                                                          total_inserted_this_run)),
                                                Len(tbl), Len(st.tbl), st.ret)),
                                     Append(fetches,
                                            Fetch(colleges[k].id, fetched[k], f))) :
                        st \in {store_weather(tbl, colleges[k].id,
                                     Slice(f.value,
                                           remaining_quota(total_inserted_this_run)))}} :
                       TRUE :
              f \in {fetch_weather_for_college(fetched[k])}} : TRUE

-----------------------------------------------------------------------------
(* The upstream APIs: the HTTP exchanges and the batches the model offers *)

SmallBatch == 3
BigBatch == 30
ShortWindow == 10
LongWindow == 31

\* the colleges with these ids carry both coordinates; LacksLat and LacksLon
\* carry one; every other college none
CoordIds == {1, 2}
LacksLat == {3}
LacksLon == {4}

Ok(body) == HttpExchange(None, 200, TRUE, body)

\* universities.hipolabs.com: a JSON list of university objects
UniRec(i, v) ==
    [name |-> ToString(i),
     country |-> COUNTRIES_TO_FETCH[(i % 2) + 1],
     alpha_two_code |-> IF i % 2 = 0 THEN "US" ELSE "CA",
     state_province |-> IF i % 2 = 0 THEN None ELSE "Ontario",
     web_pages |-> <<v>>,
     domains |-> IF v = "v1" THEN <<>> ELSE <<v>>]

UniRange(a, n, v) == [k \in 1..n |-> UniRec(a + k - 1, v)]

UniSmall == UniRange(1, SmallBatch, "v1")
UniBig == UniRange(1, BigBatch, "v1")
\* no name, an empty name, a name twice, names of UniBig with other attributes
UniMixed ==
    << [UniRec(1, "v2") EXCEPT !.name = None], [UniRec(1, "v2") EXCEPT !.name = ""],
       UniRec(2, "v2"), UniRec(2, "v2"), UniRec(BigBatch + 1, "v2") >>
\* MAX_INSERT_PER_RUN records, the first name twice
UniRepeat ==
    <<UniRec(BigBatch + 2, "v1")>> \o UniRange(BigBatch + 2, MAX_INSERT_PER_RUN - 1, "v1")

UniBatches == {UniSmall, UniBig, UniMixed, UniRepeat}

\* the College Scorecard API: {"results": [...]}, flat records
CollegeRec(i, v) ==
    [id |-> ToString(i), name |-> v,
     city |-> IF i % 2 = 0 THEN "Ann Arbor" ELSE None,
     state |-> IF i % 2 = 0 THEN "MI" ELSE "OH",
     zip |-> "48109", ownership |-> "1", predominant_degree |-> "3",
     lat |-> IF i \in CoordIds \/ i \in LacksLon THEN "42.28" ELSE None,
     lon |-> IF i \in CoordIds \/ i \in LacksLat THEN "-83.74" ELSE None,
     student_size |-> "1000",
     in_state_tuition |-> v, out_state_tuition |-> v, academic_year_cost |-> v,
     completion_rate |-> None, earnings_10yr |-> v]

CollegeRange(a, n, v) == [k \in 1..n |-> CollegeRec(a + k - 1, v)]

CollegeSmall == CollegeRange(1, SmallBatch, "v1")
CollegeBig == CollegeRange(1, BigBatch, "v1")
CollegeMixed ==
    << [CollegeRec(1, "v2") EXCEPT !.id = None], CollegeRec(2, "v2"),
       CollegeRec(2, "v2"), CollegeRec(BigBatch + 1, "v2") >>
CollegeRepeat ==
    <<CollegeRec(BigBatch + 2, "v1")>>
        \o CollegeRange(BigBatch + 2, MAX_INSERT_PER_RUN - 1, "v1")

CollegeBatches == {CollegeSmall, CollegeBig, CollegeMixed, CollegeRepeat}

\* Open-Meteo: {"daily": {"time": [...], "temperature_2m_max": [...], ...}}
Days(a, n) == [k \in 1..n |-> ToString(a + k - 1)]

Daily(time, v) ==
    [daily |-> [time |-> time,
                temperature_2m_max |-> [k \in 1..Len(time) |-> v],
                temperature_2m_min |-> [k \in 1..Len(time) |-> v],
                precipitation_sum |-> [k \in 1..Len(time) |-> v]]]

NoDaily == Daily(<<>>, "t0")

\* ShortWindow dates, the first of them twice, then an empty date and no date
WeatherShort ==
    Daily(<<ToString(1), ToString(1), "", None>> \o Days(2, ShortWindow - 1), "t1")
WeatherLong == Daily(Days(1, LongWindow), "t2")
\* a date twice, an empty date, no date, a date of neither window
WeatherMixed ==
    Daily(<<ToString(1), ToString(1), "", None, ToString(LongWindow + 1)>>, "t3")
WeatherBodies == {WeatherShort, WeatherLong, WeatherMixed}

-----------------------------------------------------------------------------
(* The runs *)

\* the final report of a run: the total and the printed runs_remaining (0 when
\* the success line is printed instead)
Report(total) ==
    [total |-> total,
     runs_remaining |-> IF total >= TARGET_TOTAL THEN 0 ELSE runs_remaining(total)]

NoReport == [total |-> 0, runs_remaining |-> 0]

\* the last operation: op names it; early says why a run returned before its
\* store call ("no": it did not); fetches and calls are the fetches and store
\* calls it made; raised says whether an exception left it; ret is what it
\* returned (a runner returns nothing: None); report is the printed progress of
\* a run that reached its report (reported)
Last(op, early, fetches, calls, raised, ret, reported, report) ==
    [op |-> op, early |-> early, fetches |-> fetches, calls |-> calls,
     raised |-> raised, ret |-> ret, reported |-> reported, report |-> report]

NoLast == Last("init", "no", <<>>, <<>>, FALSE, None, FALSE, NoReport)

\* the processes that may have the store open at once
Procs == {1, 2}

\* a connection whose process is not inside a controller call; event is the
\* last thing that happened on it and at the statement it happened at
IdleConn(event, ret) ==
    [phase |-> "idle", list |-> <<>>, key |-> None, i |-> 1, inserted_count |-> 0,
     pending |-> <<>>, pending2 |-> <<>>, txn |-> FALSE, event |-> event,
     at |-> "idle", ret |-> ret]

NoConns == [p \in Procs |-> IdleConn("none", 0)]

\* the runs of the behaviour meet exchanges of any kind: no one answer is fixed
NoUpstream == [colleges |-> <<>>, universities |-> <<>>, weather |-> <<>>]

\* the daily weather every fetch of the behaviour is answered with
SameWeather(body) == <<body>>

\* the exchanges the runs meet: a network error, a timeout, a 4xx status, a
\* body that is not JSON, an empty result, and the successful bodies
RunFailures(empty_body) ==
    { HttpExchange("ConnectionError", 0, FALSE, empty_body),
      HttpExchange("Timeout", 0, FALSE, empty_body),
      HttpExchange(None, 404, TRUE, empty_body),
      HttpExchange(None, 200, FALSE, empty_body) }

CollegeRunExchanges ==
    RunFailures([results |-> <<>>])
    \cup {Ok([results |-> b]) : b \in {<<>>, CollegeSmall, CollegeBig}}

UniRunExchanges == RunFailures(<<>>) \cup {Ok(b) : b \in {<<>>, UniSmall, UniBig}}

WeatherRunExchanges ==
    { HttpExchange("ConnectionError", 0, FALSE, NoDaily),
      Ok(WeatherShort), Ok(WeatherLong) }

\* gather_colleges.main with the exchange x of its one fetch
CollegesMain(x) ==
    \E page \in {get_next_page_to_fetch(us_colleges)} :
    \E f \in {fetch_college_page(x)} :
    \E fetches \in {<<Fetch(ToString(page), x, f)>>} :
        IF f.raised
        THEN /\ last' = Last("colleges", "no", fetches, <<>>, TRUE, None, FALSE,
                             NoReport)
             /\ UNCHANGED <<us_colleges, college_financials>>
        ELSE IF f.value = <<>>
        THEN /\ last' = Last("colleges", "no_data", fetches, <<>>, FALSE, None, FALSE,
                             NoReport)
             /\ UNCHANGED <<us_colleges, college_financials>>
        ELSE \E st \in {store_college_page(us_colleges, college_financials, f.value)} :
             /\ us_colleges' = st.colleges
             /\ college_financials' = st.financials
             /\ last' = IF st.raised
                        THEN Last("colleges", "no", fetches, <<>>, TRUE, None, FALSE,
                                  NoReport)
                        ELSE Last("colleges", "no", fetches,
                                  <<StoreCall(None, f.value, Len(us_colleges),
                                              Len(st.colleges), st.ret)>>,
                                  FALSE, None, TRUE, Report(Len(st.colleges)))

\* the part of gather_universities.main after a fetch that returned records
UniversitiesStore(fetches, universities) ==
    \E st \in {store_universities(universities_world, universities)} :
        /\ universities_world' = st.tbl
        /\ last' = Last("universities", "no", fetches,
                        <<StoreCall(None, universities, Len(universities_world),
                                    Len(st.tbl), st.ret)>>,
                        FALSE, None, TRUE, Report(get_current_count(st.tbl)))

\* gather_universities.main; x1 is the exchange of the fetch of the chosen
\* country, x2 that of the fetch of the next country, made when the first
\* fetch returned nothing
UniversitiesMain(x1, x2) ==
    \E current_count \in {get_current_count(universities_world)} :
    \E index \in {country_index(current_count)} :
    \E f1 \in {fetch_universities_by_country(x1)} :
    \E f2 \in {fetch_universities_by_country(x2)} :
    LET country == COUNTRIES_TO_FETCH[index + 1]
        next_country == COUNTRIES_TO_FETCH[((index + 1) % Len(COUNTRIES_TO_FETCH)) + 1]
        first == <<Fetch(country, x1, f1)>>
        both == <<Fetch(country, x1, f1), Fetch(next_country, x2, f2)>>
    IN  IF target_reached(current_count)
        THEN /\ last' = Last("universities", "target_reached", <<>>, <<>>, FALSE, None,
                             FALSE, NoReport)
             /\ UNCHANGED universities_world
        ELSE IF f1.raised
        THEN /\ last' = Last("universities", "no", first, <<>>, TRUE, None, FALSE,
                             NoReport)
             /\ UNCHANGED universities_world
        ELSE IF f1.value # <<>>
        THEN UniversitiesStore(first, f1.value)
        ELSE IF f2.raised
        THEN /\ last' = Last("universities", "no", both, <<>>, TRUE, None, FALSE,
                             NoReport)
             /\ UNCHANGED universities_world
        ELSE IF f2.value # <<>>
        THEN UniversitiesStore(both, f2.value)
        ELSE /\ last' = Last("universities", "no", both, <<>>, FALSE, None, TRUE,
                             Report(get_current_count(universities_world)))
             /\ UNCHANGED universities_world

\* the candidates of a weather run: the colleges without weather, else those
\* with partial weather
WeatherCandidates(colleges, weather) ==
    LET needing == get_colleges_needing_weather(colleges, weather, CANDIDATE_LIMIT)
    IN  IF needing # <<>> THEN needing
        ELSE get_colleges_with_partial_weather(colleges, weather, CANDIDATE_LIMIT)

\* gather_weather.main; fetched[k] is the exchange of the fetch for the k-th
\* candidate college
WeatherMain(colleges, fetched) ==
    LET colleges_with_coords ==
            Cardinality({i \in Rows(us_colleges) : has_coords(us_colleges[i])})
        current_weather_count == Len(daily_weather)
    IN  IF colleges_with_coords = 0
        THEN /\ last' = Last("weather", "no_colleges", <<>>, <<>>, FALSE, None, FALSE,
                             NoReport)
             /\ UNCHANGED daily_weather
        ELSE IF target_reached(current_weather_count)
        THEN /\ last' = Last("weather", "target_reached", <<>>, <<>>, FALSE, None,
                             FALSE, NoReport)
             /\ UNCHANGED daily_weather
        ELSE IF colleges = <<>>
        THEN /\ last' = Last("weather", "complete", <<>>, <<>>, FALSE, None, FALSE,
                             NoReport)
             /\ UNCHANGED daily_weather
        ELSE \E run \in {weather_loop(daily_weather, colleges, fetched, 1, 0, <<>>, <<>>)} :
             /\ daily_weather' = run.tbl
             /\ last' = IF run.raised
                        THEN Last("weather", "no", run.fetches, run.calls, TRUE, None,
                                  FALSE, NoReport)
                        ELSE Last("weather", "no", run.fetches, run.calls, FALSE, None,
                                  TRUE, Report(Len(run.tbl)))

COLLEGES_DATABASE_NAME == "project.db"
UNIVERSITIES_DATABASE_NAME == "testing.db"
WEATHER_DATABASE_NAME == "project.db"

RunColleges ==
    /\ database = COLLEGES_DATABASE_NAME
    /\ \E x \in CollegeRunExchanges : CollegesMain(x)
    /\ UNCHANGED <<unit, database, upstream, conns, universities_world, daily_weather, lookupVars>>

RunUniversities ==
    /\ database = UNIVERSITIES_DATABASE_NAME
    /\ \E x1 \in UniRunExchanges : \E x2 \in UniRunExchanges : UniversitiesMain(x1, x2)
    /\ UNCHANGED <<unit, database, upstream, conns, us_colleges, college_financials, daily_weather,
                   lookupVars>>

RunWeather ==
    /\ database = WEATHER_DATABASE_NAME
    /\ \E colleges \in {WeatherCandidates(us_colleges, daily_weather)} :
       \E fetched \in [1..Len(colleges) -> WeatherRunExchanges] :
           WeatherMain(colleges, fetched)
    /\ UNCHANGED <<unit, database, upstream, conns, us_colleges, college_financials, universities_world,
                   lookupVars>>

\* init_db on a new file: every table exists and is empty
EmptyStore ==
    /\ countries = <<>>
    /\ state_provinces = <<>>
    /\ cities = <<>>
    /\ us_colleges = <<>>
    /\ college_financials = <<>>
    /\ universities_world = <<>>
    /\ daily_weather = <<>>

\* The store is one database file, new; the runs that open the other file leave
\* it as it is (a stuttering step).
Init ==
    /\ unit = "main"
    /\ database \in {COLLEGES_DATABASE_NAME, UNIVERSITIES_DATABASE_NAME,
                     WEATHER_DATABASE_NAME}
    /\ EmptyStore
    /\ last = NoLast
    /\ conns = NoConns
    /\ upstream = NoUpstream

Next == RunColleges \/ RunUniversities \/ RunWeather

Spec == Init /\ [][Next]_vars

-----------------------------------------------------------------------------
(* The Dedup-and-Insert controllers called on their own, any batch, any      *)
(* number of times                                                           *)

StoreUnits == {"store_college_page", "store_universities", "store_weather"}

\* the college ids store_weather is called with
WeatherCallIds == {ToString(1), ToString(2)}

WeatherBatches == {weather_records(b.daily) : b \in {WeatherShort, WeatherLong}}

CallStoreCollegePage ==
    /\ unit = "store_college_page"
    /\ \E college_list \in CollegeBatches :
       \E st \in {store_college_page(us_colleges, college_financials, college_list)} :
           /\ us_colleges' = st.colleges
           /\ college_financials' = st.financials
           /\ last' = Last("store_college_page", "no", <<>>,
                           <<StoreCall(None, college_list, Len(us_colleges),
                                       Len(st.colleges), st.ret)>>,
                           st.raised, st.ret, FALSE, NoReport)
    /\ UNCHANGED <<unit, database, upstream, conns, universities_world, daily_weather, lookupVars>>

CallStoreUniversities ==
    /\ unit = "store_universities"
    /\ \E uni_list \in UniBatches :
       \E st \in {store_universities(universities_world, uni_list)} :
           /\ universities_world' = st.tbl
           /\ last' = Last("store_universities", "no", <<>>,
                           <<StoreCall(None, uni_list, Len(universities_world),
                                       Len(st.tbl), st.ret)>>,
                           FALSE, st.ret, FALSE, NoReport)
    /\ UNCHANGED <<unit, database, upstream, conns, us_colleges, college_financials, daily_weather,
                   lookupVars>>

CallStoreWeather ==
    /\ unit = "store_weather"
    /\ \E college_id \in WeatherCallIds :
       \E weather_list \in WeatherBatches :
       \E st \in {store_weather(daily_weather, college_id, weather_list)} :
           /\ daily_weather' = st.tbl
           /\ last' = Last("store_weather", "no", <<>>,
                           <<StoreCall(college_id, weather_list, Len(daily_weather),
                                       Len(st.tbl), st.ret)>>,
                           FALSE, st.ret, FALSE, NoReport)
    /\ UNCHANGED <<unit, database, upstream, conns, us_colleges, college_financials, universities_world,
                   lookupVars>>

DatabaseOf(u) ==
    IF u = "store_universities" THEN UNIVERSITIES_DATABASE_NAME
    ELSE IF u = "store_weather" THEN WEATHER_DATABASE_NAME
    ELSE COLLEGES_DATABASE_NAME

InitStore ==
    /\ unit \in StoreUnits
    /\ database = DatabaseOf(unit)
    /\ EmptyStore
    /\ last = NoLast
    /\ conns = NoConns
    /\ upstream = NoUpstream

NextStore == CallStoreCollegePage \/ CallStoreUniversities \/ CallStoreWeather

SpecStore == InitStore /\ [][NextStore]_vars

-----------------------------------------------------------------------------
(* The get-or-create lookups called on their own *)

LookupUnits ==
    {"get_or_create_country", "get_or_create_state_province", "get_or_create_city"}

\* no name, an empty name, and names that differ, two of them in case only
LookupNames == {None, "", "Ohio", "ohio", "Utah"}

LookupCall(op, name, r) ==
    Last(op, "no", <<>>, <<StoreCall(name, <<>>, 0, 0, 0)>>, r.raised, r.ret, FALSE,
         NoReport)

CallGetOrCreateCountry ==
    /\ unit = "get_or_create_country"
    /\ \E country_name \in LookupNames : \E alpha_two_code \in {None, "US"} :
       \E r \in {get_or_create_country(countries, country_name, alpha_two_code)} :
           /\ countries' = r.tbl
           /\ last' = LookupCall("get_or_create_country", country_name, r)
    /\ UNCHANGED <<unit, database, upstream, conns, state_provinces, cities, runnerVars>>

CallGetOrCreateStateProvince ==
    /\ unit = "get_or_create_state_province"
    /\ \E state_name \in LookupNames : \E country_id \in {None, ToString(1)} :
       \E r \in {get_or_create_state_province(state_provinces, state_name, country_id)} :
           /\ state_provinces' = r.tbl
           /\ last' = LookupCall("get_or_create_state_province", state_name, r)
    /\ UNCHANGED <<unit, database, upstream, conns, countries, cities, runnerVars>>

CallGetOrCreateCity ==
    /\ unit = "get_or_create_city"
    /\ \E city_name \in LookupNames :
       \E r \in {get_or_create_city(cities, city_name)} :
           /\ cities' = r.tbl
           /\ last' = LookupCall("get_or_create_city", city_name, r)
    /\ UNCHANGED <<unit, database, upstream, conns, countries, state_provinces, runnerVars>>

InitLookup ==
    /\ unit \in LookupUnits
    /\ database \in {COLLEGES_DATABASE_NAME, UNIVERSITIES_DATABASE_NAME}
    /\ EmptyStore
    /\ last = NoLast
    /\ conns = NoConns
    /\ upstream = NoUpstream

NextLookup ==
    CallGetOrCreateCountry \/ CallGetOrCreateStateProvince \/ CallGetOrCreateCity

SpecLookup == InitLookup /\ [][NextLookup]_vars

-----------------------------------------------------------------------------
(* The fetchers called on their own, on any exchange *)

FetchUnits ==
    {"fetch_college_page", "fetch_universities_by_country", "fetch_weather_for_college"}

Statuses == {200, 201, 204, 300, 301, 304, 400, 401, 403, 404, 429, 500, 502, 503}

\* requests.get raising, or a Response of any status whose body is not JSON or
\* is one of bodies
Exchanges(empty_body, bodies) ==
    {HttpExchange(e, 0, FALSE, empty_body) : e \in RequestsGetExceptions}
    \cup {HttpExchange(None, st, FALSE, empty_body) : st \in Statuses}
    \cup {HttpExchange(None, st, TRUE, b) : st \in Statuses, b \in bodies}

CollegeExchanges ==
    Exchanges([results |-> <<>>],
              {[results |-> b] : b \in {<<>>, CollegeSmall, CollegeMixed}})

UniExchanges == Exchanges(<<>>, {<<>>, UniSmall, UniMixed})

\* the longest time array of the responses whose arrays differ in length
MaxTimes == 3

Column(from, n) == [k \in 1..n |-> ToString(from + k)]

\* a response whose time array has n dates and whose other arrays have a, b
\* and c elements; an array the response lacks is read as the empty array
\* (daily.get(key, []))
Columns(n, a, b, c) ==
    [daily |-> [time |-> Days(1, n),
                temperature_2m_max |-> Column(100, a),
                temperature_2m_min |-> Column(200, b),
                precipitation_sum |-> Column(300, c)]]

WeatherColumns ==
    {Columns(n, a, b, c) : n \in 0..MaxTimes, a \in 0..MaxTimes + 1,
                           b \in 0..MaxTimes + 1, c \in 0..MaxTimes + 1}

WeatherExchanges ==
    Exchanges(NoDaily, {NoDaily, WeatherShort, WeatherMixed})
    \cup {Ok(b) : b \in WeatherColumns}

FetchCall(op, x, f) ==
    Last(op, "no", <<Fetch(None, x, f)>>, <<>>, f.raised, None, FALSE, NoReport)

CallFetchCollegePage ==
    /\ unit = "fetch_college_page"
    /\ \E x \in CollegeExchanges :
           last' = FetchCall("fetch_college_page", x, fetch_college_page(x))
    /\ UNCHANGED <<unit, database, upstream, conns, lookupVars, runnerVars>>

CallFetchUniversities ==
    /\ unit = "fetch_universities_by_country"
    /\ \E x \in UniExchanges :
           last' = FetchCall("fetch_universities_by_country", x,
                             fetch_universities_by_country(x))
    /\ UNCHANGED <<unit, database, upstream, conns, lookupVars, runnerVars>>

CallFetchWeather ==
    /\ unit = "fetch_weather_for_college"
    /\ \E x \in WeatherExchanges :
           last' = [FetchCall("fetch_weather_for_college", x,
                              fetch_weather_for_college(x))
                        EXCEPT !.calls = <<x.body.daily>>]
    /\ UNCHANGED <<unit, database, upstream, conns, lookupVars, runnerVars>>

InitFetch ==
    /\ unit \in FetchUnits
    /\ database = IF unit = "fetch_universities_by_country"
                  THEN UNIVERSITIES_DATABASE_NAME ELSE COLLEGES_DATABASE_NAME
    /\ EmptyStore
    /\ last = NoLast
    /\ conns = NoConns
    /\ upstream = NoUpstream

NextFetch == CallFetchCollegePage \/ CallFetchUniversities \/ CallFetchWeather

SpecFetch == InitFetch /\ [][NextFetch]_vars

-----------------------------------------------------------------------------
(* Properties *)

\* the primary table of the controller a unit specification applies
UnitTable ==
    IF unit = "store_college_page" THEN us_colleges
    ELSE IF unit = "store_universities" THEN universities_world
    ELSE daily_weather

\* the natural key of a raw record for a controller
KeyOf(u, record) ==
    IF u = "store_college_page" THEN record.id
    ELSE IF u = "store_universities" THEN record.name
    ELSE record.date

\* a key the controller does not skip as missing
ValidKey(u, k) == IF u = "store_college_page" THEN k # None ELSE Truthy(k)

\* the natural keys in the controller's table that a call for `key` (the
\* college of a store_weather call) is checked against
PresentKeys(u, key) ==
    IF u = "store_college_page" THEN {us_colleges[i].id : i \in Rows(us_colleges)}
    ELSE IF u = "store_universities"
    THEN {universities_world[i].name : i \in Rows(universities_world)}
    ELSE {daily_weather[i].date :
              i \in {j \in Rows(daily_weather) : daily_weather[j].college_id = key}}

OfferedKeys(u, offered) == {KeyOf(u, offered[i]) : i \in 1..Len(offered)}

\* every row of old is in new, at its place and as it was
KeptRows(old, new) == Len(new) >= Len(old) /\ \A i \in Rows(old) : new[i] = old[i]

CountWeather(tbl, college_id, date) == Cardinality(MatchingWeather(tbl, college_id, date))

\* C1: one run of any ingestion runner adds at most MAX_INSERT_PER_RUN rows to
\* its primary table (us_colleges, universities_world, daily_weather), whatever
\* the store held and whatever was fetched; for the weather runner the bound is
\* on the sum over the candidate colleges of the run.
C1_RunQuota ==
    [][ /\ Len(us_colleges') - Len(us_colleges) <= MAX_INSERT_PER_RUN
        /\ Len(universities_world') - Len(universities_world) <= MAX_INSERT_PER_RUN
        /\ Len(daily_weather') - Len(daily_weather) <= MAX_INSERT_PER_RUN ]_vars

\* a weather run that stored rows for two colleges, MAX_INSERT_PER_RUN in all
C1_Witness ==
    /\ last.op = "weather"
    /\ Len(last.calls) = 2
    /\ last.calls[1].ret > 0
    /\ last.calls[2].ret > 0
    /\ last.calls[1].ret + last.calls[2].ret = MAX_INSERT_PER_RUN
    /\ Len(last.fetches[2].outcome.value) > Len(last.calls[2].offered)

\* C2: for every natural key already in the primary table, a call of a
\* controller (store_college_page, store_universities, store_weather) on any
\* batch, repeated any number of times, leaves the number of rows with that key
\* and the existing row itself as they were.
C2_NoDuplicateNoUpdate ==
    [][ /\ KeptRows(us_colleges, us_colleges')
        /\ \A i \in Rows(us_colleges) :
               CountKey(us_colleges', "id", us_colleges[i].id)
                   = CountKey(us_colleges, "id", us_colleges[i].id)
        /\ KeptRows(universities_world, universities_world')
        /\ \A i \in Rows(universities_world) :
               CountKey(universities_world', "name", universities_world[i].name)
                   = CountKey(universities_world, "name", universities_world[i].name)
        /\ KeptRows(daily_weather, daily_weather')
        /\ \A i \in Rows(daily_weather) :
               CountWeather(daily_weather', daily_weather[i].college_id,
                            daily_weather[i].date)
                   = CountWeather(daily_weather, daily_weather[i].college_id,
                                  daily_weather[i].date) ]_vars

\* store_universities was given a batch that offers the stored name 2 with other
\* attributes, twice; the stored row is the one first inserted
C2_Witness ==
    /\ last.op = "store_universities"
    /\ last.calls[1].offered = UniMixed
    /\ last.calls[1].before_len > 0
    /\ \E i \in Rows(universities_world) :
           /\ i <= last.calls[1].before_len
           /\ universities_world[i].name = UniMixed[3].name
           /\ universities_world[i].web_page # FirstOrNone(UniMixed[3].web_pages)
    /\ CountKey(universities_world, "name", UniMixed[3].name) = 1

\* C3 as stated: a batch of at least MAX_INSERT_PER_RUN records whose natural
\* keys are all absent from the table makes the controller insert exactly
\* MAX_INSERT_PER_RUN rows and return MAX_INSERT_PER_RUN.
C3_AsStated ==
    [][ ( /\ last'.op \in StoreUnits
          /\ Len(last'.calls[1].offered) >= MAX_INSERT_PER_RUN
          /\ OfferedKeys(unit, last'.calls[1].offered)
                 \cap PresentKeys(unit, last'.calls[1].key) = {} )
        => ( /\ last'.ret = MAX_INSERT_PER_RUN
             /\ Len(UnitTable') - Len(UnitTable) = MAX_INSERT_PER_RUN ) ]_vars

\* C3, amended: a batch of at least MAX_INSERT_PER_RUN records whose natural
\* keys are present (not None, not empty), pairwise distinct and all absent
\* from the table makes the controller insert exactly MAX_INSERT_PER_RUN rows
\* and return MAX_INSERT_PER_RUN.
C3_QuotaExact ==
    [][ ( /\ last'.op \in StoreUnits
          /\ Len(last'.calls[1].offered) >= MAX_INSERT_PER_RUN
          /\ \A k \in OfferedKeys(unit, last'.calls[1].offered) : ValidKey(unit, k)
          /\ Cardinality(OfferedKeys(unit, last'.calls[1].offered))
                 = Len(last'.calls[1].offered)
          /\ OfferedKeys(unit, last'.calls[1].offered)
                 \cap PresentKeys(unit, last'.calls[1].key) = {} )
        => ( /\ last'.ret = MAX_INSERT_PER_RUN
             /\ Len(UnitTable') - Len(UnitTable) = MAX_INSERT_PER_RUN ) ]_vars

\* store_weather was given more than MAX_INSERT_PER_RUN distinct dates, none of
\* them stored for that college, on a table that already held rows
C3_Witness ==
    /\ last.op = "store_weather"
    /\ last.calls[1].offered = weather_records(WeatherLong.daily)
    /\ Len(last.calls[1].offered) > MAX_INSERT_PER_RUN
    /\ last.calls[1].before_len > 0
    /\ last.ret = MAX_INSERT_PER_RUN
    /\ last.calls[1].after_len = last.calls[1].before_len + MAX_INSERT_PER_RUN

\* C4: the integer a controller returns is the net increase of its primary
\* table's row count caused by the call.
C4_ReturnsNetIncrease ==
    [][ last'.op \in StoreUnits
        => ( /\ ~last'.raised
             /\ last'.ret = Len(UnitTable') - Len(UnitTable) ) ]_vars

\* a call that skipped some records of its batch and inserted others
C4_Witness ==
    /\ last.op \in StoreUnits
    /\ last.ret > 0
    /\ last.ret < Len(last.calls[1].offered)
    /\ last.ret < MAX_INSERT_PER_RUN
    /\ last.calls[1].before_len > 0
    /\ Len(UnitTable) = last.calls[1].before_len + last.ret

\* C5: in every state reached by weather runs, daily_weather holds at most one
\* row for each (college_id, date).
C5_OneRowPerCollegeDate ==
    \A i \in Rows(daily_weather) : \A j \in Rows(daily_weather) :
        ( /\ daily_weather[i].college_id = daily_weather[j].college_id
          /\ daily_weather[i].date = daily_weather[j].date ) => i = j

\* a weather run offered a college dates it already had, one of them twice in
\* the batch, and stored nothing for it
C5_Witness ==
    /\ last.op = "weather"
    /\ \E c \in 1..Len(last.calls) :
           /\ last.calls[c].ret = 0
           /\ Len(last.calls[c].offered) > 1
           /\ last.calls[c].offered[1].date = last.calls[c].offered[2].date
           /\ CountWeather(daily_weather, last.calls[c].key,
                           last.calls[c].offered[1].date) = 1

\* the lookup table of the lookup a unit specification applies
LookupTable ==
    IF unit = "get_or_create_country" THEN countries
    ELSE IF unit = "get_or_create_state_province" THEN state_provinces
    ELSE cities

\* C6: for every non-empty name N and each lookup, a call with N returns
\* without raising the id of the one row named N, a call never changes or
\* removes a row and adds at most one, and adds none when N is already there:
\* so two calls with N return the same id and add at most one row between
\* them, and no lookup table ever holds two rows with one name.
C6_GetOrCreateIdempotent ==
    [][ last'.op \in LookupUnits =>
        /\ KeptRows(LookupTable, LookupTable')
        /\ Len(LookupTable') <= Len(LookupTable) + 1
        /\ \A i \in Rows(LookupTable') : \A j \in Rows(LookupTable') :
               LookupTable'[i].name = LookupTable'[j].name => i = j
        /\ Truthy(last'.calls[1].key) =>
               /\ ~last'.raised
               /\ \E i \in Rows(LookupTable') :
                      /\ LookupTable'[i].name = last'.calls[1].key
                      /\ LookupTable'[i].id = last'.ret
               /\ Matching(LookupTable, "name", last'.calls[1].key) # {}
                      => LookupTable' = LookupTable
               /\ ( last.op = last'.op /\ last.calls[1].key = last'.calls[1].key )
                      => ( last'.ret = last.ret /\ LookupTable' = LookupTable ) ]_vars

\* a lookup called for the name of the first row after other names were
\* created returned the first row's id
C6_Witness ==
    /\ last.op \in LookupUnits
    /\ Truthy(last.calls[1].key)
    /\ ~last.raised
    /\ Len(LookupTable) >= 2
    /\ LookupTable[1].name = last.calls[1].key
    /\ last.ret = LookupTable[1].id

\* C7: a get-or-create lookup called with an empty or absent name returns None
\* and leaves its lookup table as it was.
C7_EmptyNameNoRow ==
    [][ ( last'.op \in LookupUnits /\ ~Truthy(last'.calls[1].key) )
        => ( /\ ~last'.raised
             /\ last'.ret = None
             /\ UNCHANGED lookupVars ) ]_vars

\* a lookup with rows in its table was called with the empty name
C7_Witness ==
    /\ last.op \in LookupUnits
    /\ last.calls[1].key = ""
    /\ last.ret = None
    /\ Len(LookupTable) > 0
    /\ \A i \in Rows(LookupTable) : Truthy(LookupTable[i].name)

\* the rows a lookup table holds for a name
Named(tbl, name) == {i \in Rows(tbl) : tbl[i].name = name}

\* C8 as stated: after a controller accepted a record that names a lookup
\* entity (a university's country or state/province, a college's city or
\* state), the lookup table holds a row for that name and the inserted row
\* holds that row's id.
C8_AsStated ==
    /\ last.op = "store_universities" =>
         \A k \in 1..Len(last.calls[1].offered) :
         \A i \in Rows(universities_world) :
             ( /\ i > last.calls[1].before_len
               /\ universities_world[i].name = last.calls[1].offered[k].name )
             => /\ Truthy(last.calls[1].offered[k].country) =>
                      \E c \in Named(countries, last.calls[1].offered[k].country) :
                          universities_world[i].country = countries[c].id
                /\ Truthy(last.calls[1].offered[k].state_province) =>
                      \E c \in Named(state_provinces,
                                     last.calls[1].offered[k].state_province) :
                          universities_world[i].state_province = state_provinces[c].id
    /\ last.op = "store_college_page" =>
         \A k \in 1..Len(last.calls[1].offered) :
         \A i \in Rows(us_colleges) :
             ( /\ i > last.calls[1].before_len
               /\ us_colleges[i].id = last.calls[1].offered[k].id )
             => /\ Truthy(last.calls[1].offered[k].city) =>
                      \E c \in Named(cities, last.calls[1].offered[k].city) :
                          us_colleges[i].city = cities[c].id
                /\ Truthy(last.calls[1].offered[k].state) =>
                      \E c \in Named(state_provinces, last.calls[1].offered[k].state) :
                          us_colleges[i].state = state_provinces[c].id

\* an exchange that is one of the failures: requests.get raised, the status is
\* not 2xx, or the body is not JSON
FailedExchange(f) ==
    f.exc # None \/ ~(200 <= f.status /\ f.status < 300) \/ ~f.json_ok

\* C9 as stated: a college run whose fetch met a network error, a timeout, a
\* non-2xx status or a malformed JSON body ends without an exception, its
\* fetch_college_page having returned an empty sequence.
C9_AsStated ==
    ( last.op = "colleges" /\ FailedExchange(last.fetches[1]) )
    => ( /\ ~last.raised
         /\ last.fetches[1].outcome = Returned(<<>>) )

\* C10 as stated: fetch_universities_by_country and fetch_weather_for_college
\* never raise, and return an empty sequence on a network error, a timeout, a
\* non-2xx status and a malformed JSON body.
C10_AsStated ==
    last.op \in {"fetch_universities_by_country", "fetch_weather_for_college"}
    => /\ ~last.raised
       /\ FailedExchange(last.fetches[1]) => last.fetches[1].outcome = Returned(<<>>)

-----------------------------------------------------------------------------
(* The controllers statement by statement: two processes with the store     *)
(* open, each inside one controller call, and a process may die anywhere    *)

\* sqlite3.connect(DATABASE_NAME) with the default isolation_level: the module
\* opens a transaction before the first INSERT and only conn.commit() ends it
implicit_transactions_Autocommit == FALSE

implicit_transactions == TRUE

\* the batches the interleaved calls are given
TxnBatches(u) ==
    IF u = "store_college_page"
    THEN {CollegeRange(1, 2, "v1"), <<CollegeRec(2, "v2"), CollegeRec(3, "v2")>>}
    ELSE IF u = "store_universities"
    THEN {UniRange(1, 2, "v1"), <<UniRec(2, "v2"), UniRec(3, "v2")>>}
    ELSE {weather_records(Daily(Days(1, 2), "t1").daily),
          weather_records(Daily(Days(2, 2), "t2").daily)}

TxnKeys(u) == IF u = "store_weather" THEN {ToString(1)} ELSE {None}

\* what the statements of connection c read: the committed rows and the rows
\* of its own open transaction
View(tbl, c) == tbl \o c.pending
View2(tbl, c) == tbl \o c.pending2

\* the write lock of the database file: held from the first INSERT of a
\* transaction to its commit or rollback
LockFree(p) == \A q \in Procs \ {p} : ~conns[q].txn

\* the row the INSERT into the primary table of controller u writes
PrimaryRow(u, tbl, c) ==
    IF u = "store_college_page" THEN us_colleges_row(c.list[c.i])
    ELSE IF u = "store_universities" THEN university_row(tbl, c.list[c.i])
    ELSE daily_weather_row(tbl, c.key, c.list[c.i])

\* the INSERT into the primary table of controller u: [ok, tbl]
PrimaryInsert(u, tbl, row) ==
    IF u = "store_college_page" THEN sql_insert_unique(tbl, "id", row)
    ELSE IF u = "store_universities" THEN sql_insert_unique(tbl, "name", row)
    ELSE sql_insert_weather(tbl, row)

\* the pre-check SELECT of controller u for the record connection c is at
PreCheckHit(u, tbl, c) ==
    IF u = "store_college_page" THEN Matching(tbl, "id", c.list[c.i].id) # {}
    ELSE IF u = "store_universities" THEN Matching(tbl, "name", c.list[c.i].name) # {}
    ELSE MatchingWeather(tbl, c.key, c.list[c.i].date) # {}

\* the INSERT of controller u is inside try ... except sqlite3.IntegrityError
CatchesIntegrityError(u) == u \in {"store_universities", "store_weather"}

\* the process of connection c ends without commit: its transaction is rolled back
Ended(c, event) ==
    [c EXCEPT !.phase = "idle", !.pending = <<>>, !.pending2 = <<>>, !.txn = FALSE,
              !.event = event, !.at = c.phase, !.ret = 0]

SetPrimary(tbl) ==
    /\ us_colleges' = IF unit = "store_college_page" THEN tbl ELSE us_colleges
    /\ universities_world' = IF unit = "store_universities" THEN tbl
                             ELSE universities_world
    /\ daily_weather' = IF unit = "store_weather" THEN tbl ELSE daily_weather

\* a process calls the controller
TxnCall(p) ==
    /\ conns[p].phase = "idle"
    /\ \E list \in TxnBatches(unit) : \E key \in TxnKeys(unit) :
           conns' = [conns EXCEPT ![p] =
                        [IdleConn("call", 0) EXCEPT !.phase = "head", !.at = "head",
                                                    !.list = list, !.key = key]]
    /\ UNCHANGED <<unit, database, upstream, lookupVars, runnerVars, last>>

\* the head of one iteration: the quota test, the key test and the pre-check
TxnHead(p) ==
    /\ conns[p].phase = "head"
    /\ \E c \in {conns[p]} :
           conns' = [conns EXCEPT ![p] =
               IF c.i > Len(c.list) \/ quota_reached(c.inserted_count)
               THEN [c EXCEPT !.phase = "commit", !.event = "loop_end"]
               ELSE IF ~ValidKey(unit, KeyOf(unit, c.list[c.i]))
               THEN [c EXCEPT !.i = c.i + 1, !.event = "skip"]
               ELSE IF PreCheckHit(unit, View(UnitTable, c), c)
               THEN [c EXCEPT !.i = c.i + 1, !.event = "skip"]
               ELSE [c EXCEPT !.phase = "insert", !.event = "precheck_passed"]]
    /\ UNCHANGED <<unit, database, upstream, lookupVars, runnerVars, last>>

\* the INSERT into the primary table
TxnInsert(p) ==
    /\ conns[p].phase = "insert"
    /\ LockFree(p)
    /\ \E c \in {conns[p]} :
       \E ins \in {PrimaryInsert(unit, View(UnitTable, c),
                                 PrimaryRow(unit, View(UnitTable, c), c))} :
       \E row \in {PrimaryRow(unit, View(UnitTable, c), c)} :
           IF ~ins.ok
           THEN /\ conns' = [conns EXCEPT ![p] =
                       IF CatchesIntegrityError(unit)
                       THEN [c EXCEPT !.phase = "head", !.i = c.i + 1,
                                      !.txn = implicit_transactions,
                                      !.event = "integrity_error"]
                       ELSE Ended(c, "raised")]
                /\ UNCHANGED runnerVars
           ELSE /\ conns' = [conns EXCEPT ![p] =
                       IF unit = "store_college_page"
                       THEN [c EXCEPT !.phase = "insert2",
                                      !.pending = IF implicit_transactions
                                                  THEN Append(c.pending, row)
                                                  ELSE c.pending,
                                      !.txn = implicit_transactions,
                                      !.event = "insert"]
                       ELSE [c EXCEPT !.phase = "head", !.i = c.i + 1,
                                      !.inserted_count = c.inserted_count + 1,
                                      !.pending = IF implicit_transactions
                                                  THEN Append(c.pending, row)
                                                  ELSE c.pending,
                                      !.txn = implicit_transactions,
                                      !.event = "insert"]]
                /\ IF implicit_transactions
                   THEN UNCHANGED runnerVars
                   ELSE /\ SetPrimary(Append(UnitTable, row))
                        /\ UNCHANGED college_financials
    /\ UNCHANGED <<unit, database, upstream, lookupVars, last>>

\* store_college_page: the INSERT into college_financials
TxnInsertFinancials(p) ==
    /\ unit = "store_college_page"
    /\ conns[p].phase = "insert2"
    /\ LockFree(p)
    /\ \E c \in {conns[p]} :
       \E row \in {college_financials_row(c.list[c.i])} :
       \E ins \in {sql_insert_unique(View2(college_financials, c), "id", row)} :
           IF ~ins.ok
           THEN /\ conns' = [conns EXCEPT ![p] = Ended(c, "raised")]
                /\ UNCHANGED runnerVars
           ELSE /\ conns' = [conns EXCEPT ![p] =
                       [c EXCEPT !.phase = "head", !.i = c.i + 1,
                                 !.inserted_count = c.inserted_count + 1,
                                 !.pending2 = IF implicit_transactions
                                              THEN Append(c.pending2, row)
                                              ELSE c.pending2,
                                 !.event = "insert"]]
                /\ IF implicit_transactions
                   THEN UNCHANGED runnerVars
                   ELSE /\ college_financials' = Append(college_financials, row)
                        /\ UNCHANGED <<us_colleges, universities_world, daily_weather>>
    /\ UNCHANGED <<unit, database, upstream, lookupVars, last>>

\* conn.commit() after the loop, and the return of inserted_count
TxnCommit(p) ==
    /\ conns[p].phase = "commit"
    /\ \E c \in {conns[p]} :
           /\ SetPrimary(View(UnitTable, c))
           /\ college_financials' = View2(college_financials, c)
           /\ conns' = [conns EXCEPT ![p] =
                  [c EXCEPT !.phase = "idle", !.pending = <<>>, !.pending2 = <<>>,
                            !.txn = FALSE, !.event = "commit", !.at = "commit",
                            !.ret = c.inserted_count]]
    /\ UNCHANGED <<unit, database, upstream, lookupVars, last>>

\* the process dies inside the call: nothing it has not committed is kept
TxnCrash(p) ==
    /\ conns[p].phase \in {"head", "insert", "insert2", "commit"}
    /\ conns' = [conns EXCEPT ![p] = Ended(conns[p], "crash")]
    /\ UNCHANGED <<unit, database, upstream, lookupVars, runnerVars, last>>

InitTxn ==
    /\ unit \in StoreUnits
    /\ database = DatabaseOf(unit)
    /\ EmptyStore
    /\ last = NoLast
    /\ conns = NoConns
    /\ upstream = NoUpstream

NextTxn ==
    \E p \in Procs :
        \/ TxnCall(p)
        \/ TxnHead(p)
        \/ TxnInsert(p)
        \/ TxnInsertFinancials(p)
        \/ TxnCommit(p)
        \/ TxnCrash(p)

SpecTxn == InitTxn /\ [][NextTxn]_vars

\* process p's INSERT has just hit a uniqueness constraint its pre-check did
\* not catch
ConstraintHit(p) ==
    /\ conns[p].phase \in {"insert", "insert2"}
    /\ conns'[p].event \in {"integrity_error", "raised"}

\* no two rows of the controller's committed table share a natural key
OneRowPerKey ==
    /\ \A i \in Rows(us_colleges) : \A j \in Rows(us_colleges) :
           us_colleges[i].id = us_colleges[j].id => i = j
    /\ \A i \in Rows(universities_world) : \A j \in Rows(universities_world) :
           universities_world[i].name = universities_world[j].name => i = j
    /\ \A i \in Rows(daily_weather) : \A j \in Rows(daily_weather) :
           ( /\ daily_weather[i].college_id = daily_weather[j].college_id
             /\ daily_weather[i].date = daily_weather[j].date ) => i = j

\* C11 as stated: when an INSERT of any controller hits a uniqueness constraint
\* the pre-check did not catch, the call goes on with the next record without
\* raising and without counting the record, and the table holds one row for
\* the key.
C11_AsStated ==
    [][ \A p \in Procs :
            ConstraintHit(p) =>
                /\ conns'[p].event # "raised"
                /\ conns'[p].phase = "head"
                /\ conns'[p].i = conns[p].i + 1
                /\ conns'[p].inserted_count = conns[p].inserted_count
                /\ OneRowPerKey' ]_vars

\* C12: in every committed state of the store, whatever college calls ran, were
\* interleaved or died at any statement, us_colleges and college_financials
\* hold the same set of ids.
C12_CollegeWithFinancials ==
    {us_colleges[i].id : i \in Rows(us_colleges)}
        = {college_financials[i].id : i \in Rows(college_financials)}

\* a college call died between its two INSERTs after another call had
\* committed colleges
C12_Witness ==
    /\ unit = "store_college_page"
    /\ Len(us_colleges) > 0
    /\ \E p \in Procs :
           /\ conns[p].event = "crash"
           /\ conns[p].at = "insert2"
           /\ conns[p].i > 1

\* C13 as stated: the rows a call had accepted when its process died are in the
\* store afterwards.
C13_AsStated ==
    [][ \A p \in Procs :
            ( conns[p].phase # "idle" /\ conns'[p].event = "crash"
              /\ conns'[p].phase = "idle" )
            => /\ Len(UnitTable') = Len(UnitTable) + Len(conns[p].pending)
               /\ \A k \in 1..conns[p].i - 1 :
                      ValidKey(unit, KeyOf(unit, conns[p].list[k]))
                      => PreCheckHit(unit, UnitTable',
                                     [conns[p] EXCEPT !.i = k]) ]_vars

-----------------------------------------------------------------------------
(* The runs and the progress estimators on a store that earlier runs have    *)
(* filled                                                                    *)

\* row counts of a primary table around the page size and the target
StoreSizes == {0, 24, 25, 50, 99, 100, 101, 124, 199, 200, 201, 250}

\* ids and names of the rows earlier runs stored start after this one, so that
\* the batches of the model are new to them
EarlierFrom == 1000

RowIds(tbl) == [k \in 1..Len(tbl) |-> [tbl[k] EXCEPT !.id = ToString(k)]]

StoredUniversities(M) ==
    RowIds([k \in 1..M |-> university_row(<<>>, UniRec(EarlierFrom + k, "v1"))])

StoredColleges(M) == [k \in 1..M |-> us_colleges_row(CollegeRec(EarlierFrom + k, "v1"))]

StoredFinancials(M) ==
    [k \in 1..M |-> college_financials_row(CollegeRec(EarlierFrom + k, "v1"))]

\* A weather profile: for the college with id k, whether it carries lat, whether
\* it carries lon, and how many days of weather it has.
Coords(n) == <<TRUE, TRUE, n>>
NoLat(n) == <<FALSE, TRUE, n>>
NoLon(n) == <<TRUE, FALSE, n>>
NoCoords(n) == <<FALSE, FALSE, n>>

WeatherProfiles ==
    { <<>>,
      <<NoLat(0), Coords(0)>>,
      <<NoLat(0), NoLon(0), NoCoords(0)>>,
      <<Coords(0), Coords(0), NoCoords(0), Coords(0), Coords(0), Coords(0), Coords(0),
        Coords(0)>>,
      <<Coords(5), Coords(0), NoLon(0)>>,
      <<Coords(25), Coords(10), Coords(30), Coords(24), NoLon(3), Coords(29),
        Coords(1)>>,
      <<Coords(3), Coords(2), Coords(1), NoLat(1), Coords(4), Coords(6), Coords(5),
        Coords(7)>>,
      <<Coords(31), Coords(30)>>,
      <<Coords(25), Coords(25), Coords(25), Coords(24), Coords(0)>>,
      <<Coords(25), Coords(25), Coords(25), Coords(25), Coords(0), Coords(3)>>,
      <<Coords(31), Coords(31), Coords(31), Coords(31), Coords(0)>> }

ProfileColleges(profile) ==
    [k \in 1..Len(profile) |->
        [us_colleges_row(CollegeRec(k, "v1")) EXCEPT
            !.lat = IF profile[k][1] THEN "42.28" ELSE None,
            !.lon = IF profile[k][2] THEN "-83.74" ELSE None]]

ProfileFinancials(profile) ==
    [k \in 1..Len(profile) |-> college_financials_row(CollegeRec(k, "v1"))]

RECURSIVE ProfileWeatherFrom(_, _)
ProfileWeatherFrom(profile, k) ==
    IF k > Len(profile) THEN <<>>
    ELSE [d \in 1..profile[k][3] |->
             daily_weather_row(<<>>, ToString(k),
                 [date |-> ToString(d), temp_max |-> "t0", temp_min |-> "t0",
                  precip_sum |-> "t0"])]
         \o ProfileWeatherFrom(profile, k + 1)

ProfileWeather(profile) == RowIds(ProfileWeatherFrom(profile, 1))

PlanUnits ==
    {"get_next_page_to_fetch", "get_colleges_needing_weather",
     "get_colleges_with_partial_weather"}

\* the limits the candidate queries are called with: main passes 5, the
\* default is 10
CandidateLimits == {1, 2, CANDIDATE_LIMIT, 10}

CallGetNextPageToFetch ==
    /\ unit = "get_next_page_to_fetch"
    /\ last' = Last("get_next_page_to_fetch", "no", <<>>, <<>>, FALSE,
                    get_next_page_to_fetch(us_colleges), FALSE, NoReport)
    /\ UNCHANGED <<unit, database, upstream, conns, lookupVars, runnerVars>>

\* one call of a candidate query: the limit it was given, the rows it returned
Query(limit, rows) == [limit |-> limit, rows |-> rows]

CallGetCollegesNeedingWeather ==
    /\ unit = "get_colleges_needing_weather"
    /\ \E limit \in CandidateLimits :
           last' = Last("get_colleges_needing_weather", "no", <<>>,
                        <<Query(limit, get_colleges_needing_weather(us_colleges,
                                           daily_weather, limit))>>,
                        FALSE, None, FALSE, NoReport)
    /\ UNCHANGED <<unit, database, upstream, conns, lookupVars, runnerVars>>

CallGetCollegesWithPartialWeather ==
    /\ unit = "get_colleges_with_partial_weather"
    /\ \E limit \in CandidateLimits :
           last' = Last("get_colleges_with_partial_weather", "no", <<>>,
                        <<Query(limit, get_colleges_with_partial_weather(us_colleges,
                                           daily_weather, limit))>>,
                        FALSE, None, FALSE, NoReport)
    /\ UNCHANGED <<unit, database, upstream, conns, lookupVars, runnerVars>>

\* a weather run whose fetches all meet the same exchange
RunWeatherAlike ==
    /\ unit = "main"
    /\ database = WEATHER_DATABASE_NAME
    /\ \E colleges \in {WeatherCandidates(us_colleges, daily_weather)} :
       \E x \in WeatherRunExchanges :
           WeatherMain(colleges, [k \in 1..Len(colleges) |-> x])
    /\ UNCHANGED <<unit, database, upstream, conns, us_colleges, college_financials,
                   universities_world, lookupVars>>

InitFilled ==
    /\ unit \in {"main"} \cup PlanUnits
    /\ database \in {COLLEGES_DATABASE_NAME, UNIVERSITIES_DATABASE_NAME}
    /\ countries = <<>>
    /\ state_provinces = <<>>
    /\ cities = <<>>
    /\ \/ /\ database = UNIVERSITIES_DATABASE_NAME
          /\ unit = "main"
          /\ \E M \in {m \in StoreSizes : m <= TARGET_TOTAL + MAX_INSERT_PER_RUN - 1} :
                 universities_world = StoredUniversities(M)
          /\ us_colleges = <<>>
          /\ college_financials = <<>>
          /\ daily_weather = <<>>
       \/ /\ database = COLLEGES_DATABASE_NAME
          /\ unit \in {"main", "get_next_page_to_fetch"}
          /\ \E M \in StoreSizes :
                 /\ us_colleges = StoredColleges(M)
                 /\ college_financials = StoredFinancials(M)
          /\ universities_world = <<>>
          /\ daily_weather = <<>>
       \/ /\ database = WEATHER_DATABASE_NAME
          /\ \E profile \in WeatherProfiles :
                 /\ us_colleges = ProfileColleges(profile)
                 /\ college_financials = ProfileFinancials(profile)
                 /\ daily_weather = ProfileWeather(profile)
          /\ universities_world = <<>>
    /\ last = NoLast
    /\ conns = NoConns
    /\ upstream = NoUpstream

NextFilled ==
    \/ RunColleges
    \/ RunUniversities
    \/ RunWeatherAlike
    \/ CallGetNextPageToFetch
    \/ CallGetCollegesNeedingWeather
    \/ CallGetCollegesWithPartialWeather

SpecFilled == InitFilled /\ [][NextFilled]_vars

\* page is the floor of M / PER_PAGE, PER_PAGE being the per_page main passes
\* to fetch_college_page
FloorOfPages(page, M) ==
    /\ page * PER_PAGE <= M
    /\ M < (page + 1) * PER_PAGE
    /\ M % PER_PAGE = 0 => page * PER_PAGE = M

\* C14: for every college count M, get_next_page_to_fetch returns
\* floor(M / 100), 100 being the page size the runner passes to the fetcher,
\* and the college run fetches that page.
C14_NextPage ==
    [][ /\ last'.op = "get_next_page_to_fetch"
            => FloorOfPages(last'.ret, Len(us_colleges))
        /\ last'.op = "colleges"
            => \E page \in 0..Len(us_colleges) :
                   /\ last'.fetches[1].key = ToString(page)
                   /\ FloorOfPages(page, Len(us_colleges)) ]_vars

\* get_next_page_to_fetch returned 1 for a table one row short of two pages
C14_Witness ==
    /\ last.op = "get_next_page_to_fetch"
    /\ Len(us_colleges) = 2 * PER_PAGE - 1
    /\ last.ret = 1

WithCoords == {i \in Rows(us_colleges) :
                  us_colleges[i].lat # None /\ us_colleges[i].lon # None}

\* the number of daily_weather rows of the college of row i of us_colleges
DaysOf(i) ==
    Cardinality({w \in Rows(daily_weather) :
                    daily_weather[w].college_id = us_colleges[i].id})

\* seq holds rows of us_colleges taken from the rows S, none of them twice
RowsFrom(seq, S) ==
    /\ \A k \in 1..Len(seq) : \E i \in S : us_colleges[i] = seq[k]
    /\ \A k \in 1..Len(seq) : \A m \in 1..Len(seq) : seq[k].id = seq[m].id => k = m

\* C16: get_colleges_needing_weather(limit) returns colleges that carry both
\* coordinates and have no weather row, all of them or limit of them; no
\* candidate query returns a college lacking a coordinate; and a weather run
\* (limit 5) fetches for at most 5 colleges, each with both coordinates and,
\* while a college with coordinates and no weather exists, each without
\* weather.
C16_FirstTier ==
    [][ /\ last'.op = "get_colleges_needing_weather" =>
              /\ RowsFrom(last'.calls[1].rows, {i \in WithCoords : DaysOf(i) = 0})
              /\ Len(last'.calls[1].rows) <= last'.calls[1].limit
              /\ Len(last'.calls[1].rows) < last'.calls[1].limit =>
                     Len(last'.calls[1].rows)
                         = Cardinality({i \in WithCoords : DaysOf(i) = 0})
        /\ last'.op = "get_colleges_with_partial_weather" =>
              RowsFrom(last'.calls[1].rows, WithCoords)
        /\ last'.op = "weather" =>
              /\ Len(last'.fetches) <= 5
              /\ \A k \in 1..Len(last'.fetches) :
                     \E i \in WithCoords : us_colleges[i].id = last'.fetches[k].key
              /\ {i \in WithCoords : DaysOf(i) = 0} # {} =>
                     \A k \in 1..Len(last'.fetches) :
                         \E i \in WithCoords :
                             /\ us_colleges[i].id = last'.fetches[k].key
                             /\ DaysOf(i) = 0 ]_vars

\* of eight colleges without weather, the third lacking coordinates, the query
\* with limit 5 returned five and passed over the third
C16_Witness ==
    /\ last.op = "get_colleges_needing_weather"
    /\ last.calls[1].limit = CANDIDATE_LIMIT
    /\ Len(last.calls[1].rows) = CANDIDATE_LIMIT
    /\ Len(us_colleges) > CANDIDATE_LIMIT + 1
    /\ us_colleges[3].lat = None
    /\ last.calls[1].rows[3].id = us_colleges[4].id

\* the number of daily_weather rows of the college with this id
DaysOfId(id) ==
    Cardinality({w \in Rows(daily_weather) : daily_weather[w].college_id = id})

\* the rows of us_colleges of the second tier as the claim has it: both
\* coordinates and between 1 and MAX_INSERT_PER_RUN - 1 weather rows
SecondTier ==
    {i \in WithCoords : DaysOf(i) >= 1 /\ DaysOf(i) <= MAX_INSERT_PER_RUN - 1}

\* C17 as stated: a weather run fetches for colleges that have weather only
\* when no college with coordinates is without weather, and
\* get_colleges_with_partial_weather(limit) returns the colleges with
\* coordinates and 1 to 24 weather rows, all of them or limit of them, in
\* ascending order of their number of weather rows.
C17_AsStated ==
    [][ /\ last'.op = "weather" =>
              \A k \in 1..Len(last'.fetches) :
                  DaysOfId(last'.fetches[k].key) > 0
                      => {i \in WithCoords : DaysOf(i) = 0} = {}
        /\ last'.op = "get_colleges_with_partial_weather" =>
              /\ RowsFrom(last'.calls[1].rows, SecondTier)
              /\ Len(last'.calls[1].rows) <= last'.calls[1].limit
              /\ Len(last'.calls[1].rows) < last'.calls[1].limit =>
                     Len(last'.calls[1].rows) = Cardinality(SecondTier)
              /\ \A k \in 1..Len(last'.calls[1].rows) :
                 \A m \in 1..Len(last'.calls[1].rows) :
                     k < m => DaysOfId(last'.calls[1].rows[k].id)
                                  <= DaysOfId(last'.calls[1].rows[m].id) ]_vars

\* the natural keys of a fetched batch that controller u would accept: present,
\* and not in the table (for store_weather: not stored for college `key`)
NovelKeys(u, value, key) ==
    {k \in OfferedKeys(u, value) : ValidKey(u, k)} \ PresentKeys(u, key)

\* the fetch of run l for `key` that returned records, if it made one
FetchedFor(l, key) ==
    {k \in 1..Len(l.fetches) :
        l.fetches[k].key = key /\ l.fetches[k].outcome.value # <<>>}

\* run l and the run before it both fetched for `key` and got the same records
SameFetchAgain(before, l, key) ==
    \E a \in FetchedFor(before, key) : \E b \in FetchedFor(l, key) :
        before.fetches[a].outcome.value = l.fetches[b].outcome.value

RECURSIVE SumRet(_, _)
SumRet(calls, n) == IF n = 0 THEN 0 ELSE calls[n].ret + SumRet(calls, n - 1)

Smaller(a, b) == IF a < b THEN a ELSE b

\* C18 as stated: when a run fetches for a unit (page, country, college) the
\* records the run before it fetched for that unit, it inserts the records of
\* that batch that are not yet stored, up to what is left of its quota of 25.
C18_AsStated ==
    [][ /\ ( last.op = "colleges" /\ last'.op = "colleges" /\ Len(last'.calls) = 1
             /\ SameFetchAgain(last, last', last'.fetches[1].key) )
            => last'.calls[1].ret
                   = Smaller(MAX_INSERT_PER_RUN,
                             Cardinality(NovelKeys("store_college_page",
                                                   last'.calls[1].offered, None)))
        /\ ( last.op = "universities" /\ last'.op = "universities"
             /\ Len(last'.calls) = 1
             /\ SameFetchAgain(last, last',
                               last'.fetches[Len(last'.fetches)].key) )
            => last'.calls[1].ret
                   = Smaller(MAX_INSERT_PER_RUN,
                             Cardinality(NovelKeys("store_universities",
                                                   last'.calls[1].offered, None)))
        /\ ( last.op = "weather" /\ last'.op = "weather" )
            => \A c \in 1..Len(last'.calls) :
                   SameFetchAgain(last, last', last'.calls[c].key)
                   => \A b \in FetchedFor(last', last'.calls[c].key) :
                          last'.calls[c].ret
                              = Smaller(MAX_INSERT_PER_RUN - SumRet(last'.calls, c - 1),
                                        Cardinality(NovelKeys("store_weather",
                                            last'.fetches[b].outcome.value,
                                            last'.calls[c].key))) ]_vars

\* C19 as stated: a run does what it does below the target whatever the row
\* count at its start: the college and the university run fetch, the weather
\* run fetches when a college with coordinates has no weather, and none
\* returns because the table holds 100 rows.
C19_AsStated ==
    [][ /\ last'.op \in {"colleges", "universities", "weather"}
            => last'.early # "target_reached"
        /\ last'.op \in {"colleges", "universities"} => last'.fetches # <<>>
        /\ ( last'.op = "weather" /\ {i \in WithCoords : DaysOf(i) = 0} # {} )
            => last'.fetches # <<>> ]_vars

\* C20: a weather run on a store in which no college carries both coordinates
\* returns early: it makes no fetch and no store call, raises nothing and
\* leaves every table as it was.
C20_NoCollegesEarlyExit ==
    [][ ( last'.op = "weather" /\ WithCoords = {} )
        => /\ last'.early = "no_colleges"
           /\ last'.fetches = <<>>
           /\ last'.calls = <<>>
           /\ ~last'.raised
           /\ UNCHANGED <<runnerVars, lookupVars>> ]_vars

\* a weather run returned early on a store whose colleges carry one coordinate
\* or none
C20_Witness ==
    /\ last.op = "weather"
    /\ last.early = "no_colleges"
    /\ WithCoords = {}
    /\ \E i \in Rows(us_colleges) : us_colleges[i].lat # None
    /\ \E i \in Rows(us_colleges) : us_colleges[i].lon # None

-----------------------------------------------------------------------------
(* The whole ingestion core on one store: the runs and the lookups, in any   *)
(* order                                                                     *)

\* the names the lookups are called with between the runs: an empty name and a
\* name, again and again
CoreNames == {"", "Ohio"}

CoreGetOrCreateCountry ==
    /\ unit = "core"
    /\ \E country_name \in CoreNames :
       \E r \in {get_or_create_country(countries, country_name, "US")} :
           /\ countries' = r.tbl
           /\ last' = LookupCall("get_or_create_country", country_name, r)
    /\ UNCHANGED <<unit, database, upstream, conns, state_provinces, cities, runnerVars>>

CoreGetOrCreateStateProvince ==
    /\ unit = "core"
    /\ \E state_name \in CoreNames :
       \E r \in {get_or_create_state_province(state_provinces, state_name, None)} :
           /\ state_provinces' = r.tbl
           /\ last' = LookupCall("get_or_create_state_province", state_name, r)
    /\ UNCHANGED <<unit, database, upstream, conns, countries, cities, runnerVars>>

CoreGetOrCreateCity ==
    /\ unit = "core"
    /\ \E city_name \in CoreNames :
       \E r \in {get_or_create_city(cities, city_name)} :
           /\ cities' = r.tbl
           /\ last' = LookupCall("get_or_create_city", city_name, r)
    /\ UNCHANGED <<unit, database, upstream, conns, countries, state_provinces, runnerVars>>

InitCore ==
    /\ unit = "core"
    /\ database \in {COLLEGES_DATABASE_NAME, UNIVERSITIES_DATABASE_NAME}
    /\ EmptyStore
    /\ last = NoLast
    /\ conns = NoConns
    /\ upstream = NoUpstream

NextCore ==
    \/ RunColleges
    \/ RunUniversities
    \/ RunWeather
    \/ CoreGetOrCreateCountry
    \/ CoreGetOrCreateStateProvince
    \/ CoreGetOrCreateCity

SpecCore == InitCore /\ [][NextCore]_vars

\* C21: whatever runs and lookups are made, in whatever order, every table
\* only grows: each operation keeps every row of every table at its place and
\* with every attribute as it was.
C21_RowsOnlyAdded ==
    [][ /\ KeptRows(countries, countries')
        /\ KeptRows(state_provinces, state_provinces')
        /\ KeptRows(cities, cities')
        /\ KeptRows(us_colleges, us_colleges')
        /\ KeptRows(college_financials, college_financials')
        /\ KeptRows(universities_world, universities_world')
        /\ KeptRows(daily_weather, daily_weather') ]_vars

\* after a country was created, a weather run was offered, with other
\* temperatures, a date it had stored for that college in an earlier run; the
\* stored row holds the temperatures of the earlier run
C21_Witness ==
    /\ unit = "core"
    /\ Len(countries) > 0
    /\ last.op = "weather"
    /\ \E c \in 1..Len(last.calls) :
       \E k \in 1..Len(last.calls[c].offered) :
       \E i \in Rows(daily_weather) :
           /\ i <= last.calls[c].before_len
           /\ daily_weather[i].college_id = last.calls[c].key
           /\ daily_weather[i].date = last.calls[c].offered[k].date
           /\ daily_weather[i].temp_max # last.calls[c].offered[k].temp_max

\* R is the ceiling of (100 - T) / 25
CeilOfRuns(R, T) == (R - 1) * 25 < 100 - T /\ 100 - T <= R * 25

\* the row count of the primary table of the runner op, the tables being
\* those of a state
PrimaryCount(op, colleges, universities, weather) ==
    IF op = "colleges" THEN Len(colleges)
    ELSE IF op = "universities" THEN Len(universities)
    ELSE Len(weather)

\* C22: a run of any runner that ends with a total T below 100 and prints its
\* progress line reports runs_remaining = ceil((100 - T) / 25), T being the
\* row count of its table at the end of the run; the value is at least 1, it
\* is the ceiling for every T of 0..99, and it is 4 for T = 3.
C22_RunsRemaining ==
    [][ /\ \A T \in 0..99 : CeilOfRuns(runs_remaining(T), T)
        /\ ( /\ last'.op \in {"colleges", "universities", "weather"}
             /\ last'.reported
             /\ last'.report.total < 100 )
            => /\ last'.report.total = PrimaryCount(last'.op, us_colleges', universities_world',
                                                   daily_weather')
               /\ CeilOfRuns(last'.report.runs_remaining, last'.report.total)
               /\ last'.report.runs_remaining >= 1
               /\ last'.report.total = 3 => last'.report.runs_remaining = 4 ]_vars

\* a college run on the empty store stored the 3 records it fetched and
\* reported 4 runs remaining
C22_Witness ==
    /\ last.op = "colleges"
    /\ last.reported
    /\ last.calls[1].before_len = 0
    /\ last.calls[1].ret = 3
    /\ Len(us_colleges) = 3
    /\ last.report.total = 3
    /\ last.report.runs_remaining = 4

\* C23: for every response of status 200 whose JSON body has a time array of
\* n dates, fetch_weather_for_college returns without raising n records in
\* the order of the time array; record i carries time[i] and, for each of the
\* maximum temperature, the minimum temperature and the precipitation, the
\* i-th element of that array if the array has one and None if it does not.
C23_Reshape ==
    last.op = "fetch_weather_for_college" =>
        /\ ~last.raised
        /\ ( /\ last.fetches[1].exc = None
             /\ last.fetches[1].status = 200
             /\ last.fetches[1].json_ok )
            => LET daily == last.calls[1]
                   results == last.fetches[1].outcome.value
               IN  /\ Len(results) = Len(daily.time)
                   /\ \A i \in 1..Len(daily.time) :
                          /\ results[i].date = daily.time[i]
                          /\ results[i].temp_max
                                 = IF i \in DOMAIN daily.temperature_2m_max
                                   THEN daily.temperature_2m_max[i] ELSE None
                          /\ results[i].temp_min
                                 = IF i \in DOMAIN daily.temperature_2m_min
                                   THEN daily.temperature_2m_min[i] ELSE None
                          /\ results[i].precip_sum
                                 = IF i \in DOMAIN daily.precipitation_sum
                                   THEN daily.precipitation_sum[i] ELSE None

\* a response with three dates, three maxima, two minima and no precipitation:
\* three records came back, the last with a maximum, no minimum and no
\* precipitation
C23_Witness ==
    /\ last.op = "fetch_weather_for_college"
    /\ last.calls[1] = Columns(3, 3, 2, 0).daily
    /\ ~last.raised
    /\ Len(last.fetches[1].outcome.value) = 3
    /\ last.fetches[1].outcome.value[2].temp_min # None
    /\ last.fetches[1].outcome.value[3].temp_max # None
    /\ last.fetches[1].outcome.value[3].temp_min = None
    /\ last.fetches[1].outcome.value[3].precip_sum = None

-----------------------------------------------------------------------------
(* Runs one after the other against APIs that answer every fetch, and answer *)
(* the same every time                                                       *)

\* the College Scorecard listing in its stable order: a listing of exactly one
\* page, one of SmallBatch colleges, and a page in which every tenth record
\* has no id
FullListing == CollegeRange(1, PER_PAGE, "v1")

GapListing ==
    [k \in 1..PER_PAGE |->
        IF k % 10 = 0 THEN [CollegeRec(k, "v1") EXCEPT !.id = None]
        ELSE CollegeRec(k, "v1")]

CollegeListings == {FullListing, CollegeSmall, GapListing}

\* page `page` of `per_page` records of a listing (pages are 0-indexed)
PageOf(listing, page, per_page) ==
    [k \in 1..Smaller(per_page, Len(listing) - page * per_page) |->
        listing[page * per_page + k]]

\* the row counts below the target the steady runs start from: rows of earlier
\* runs that are not in the listings
SteadySizes == {m \in StoreSizes : m < TARGET_TOTAL}

\* gather_colleges.main, the API answering page `page` of its listing; the
\* runs are followed until the table holds TARGET_TOTAL rows
SteadyColleges ==
    /\ unit = "steady"
    /\ database = COLLEGES_DATABASE_NAME
    /\ upstream.colleges # <<>>
    /\ Len(us_colleges) < TARGET_TOTAL
    /\ CollegesMain(Ok([results |->
           PageOf(upstream.colleges, get_next_page_to_fetch(us_colleges), PER_PAGE)]))
    /\ UNCHANGED <<unit, database, upstream, conns, universities_world, daily_weather,
                   lookupVars>>

\* the lists hipolabs returns, country by country in the order of
\* COUNTRIES_TO_FETCH: BigBatch names of its own for every country; SmallBatch
\* names of its own for every country; BigBatch for the first country and
\* SmallBatch for the others; and the same BigBatch names for every country
AmpleLists == [c \in 1..Len(COUNTRIES_TO_FETCH) |-> UniRange(100 * c + 1, BigBatch, "v1")]

ShortLists == [c \in 1..Len(COUNTRIES_TO_FETCH) |-> UniRange(100 * c + 1, SmallBatch, "v1")]

UnevenLists ==
    [c \in 1..Len(COUNTRIES_TO_FETCH) |->
        UniRange(100 * c + 1, IF c = 1 THEN BigBatch ELSE SmallBatch, "v1")]

SharedLists == [c \in 1..Len(COUNTRIES_TO_FETCH) |-> UniBig]

UniListings == {AmpleLists, ShortLists, UnevenLists, SharedLists}

\* gather_universities.main, the API answering each country with its list
SteadyUniversities ==
    /\ unit = "steady"
    /\ database = UNIVERSITIES_DATABASE_NAME
    /\ upstream.universities # <<>>
    /\ \E index \in {country_index(get_current_count(universities_world))} :
           UniversitiesMain(
               Ok(upstream.universities[index + 1]),
               Ok(upstream.universities[((index + 1) % Len(COUNTRIES_TO_FETCH)) + 1]))
    /\ UNCHANGED <<unit, database, upstream, conns, us_colleges, college_financials,
                   daily_weather, lookupVars>>

\* the date windows Open-Meteo answers with
WeatherWindows == {Daily(Days(1, ShortWindow), "t1"), WeatherLong}

\* gather_weather.main, the API answering every fetch with the same window
SteadyWeather ==
    /\ unit = "steady"
    /\ database = WEATHER_DATABASE_NAME
    /\ upstream.weather # <<>>
    /\ \E colleges \in {WeatherCandidates(us_colleges, daily_weather)} :
           WeatherMain(colleges, [k \in 1..Len(colleges) |-> Ok(upstream.weather[1])])
    /\ UNCHANGED <<unit, database, upstream, conns, us_colleges, college_financials,
                   universities_world, lookupVars>>

InitSteady ==
    /\ unit = "steady"
    /\ countries = <<>>
    /\ state_provinces = <<>>
    /\ cities = <<>>
    /\ last = NoLast
    /\ conns = NoConns
    /\ \/ /\ database = COLLEGES_DATABASE_NAME
          /\ \E listing \in CollegeListings :
                 upstream = [NoUpstream EXCEPT !.colleges = listing]
          /\ \E M \in SteadySizes :
                 /\ us_colleges = StoredColleges(M)
                 /\ college_financials = StoredFinancials(M)
          /\ universities_world = <<>>
          /\ daily_weather = <<>>
       \/ /\ database = UNIVERSITIES_DATABASE_NAME
          /\ \E lists \in UniListings :
                 upstream = [NoUpstream EXCEPT !.universities = lists]
          /\ \E M \in SteadySizes : universities_world = StoredUniversities(M)
          /\ us_colleges = <<>>
          /\ college_financials = <<>>
          /\ daily_weather = <<>>
       \/ /\ database = WEATHER_DATABASE_NAME
          /\ \E body \in WeatherWindows :
                 upstream = [NoUpstream EXCEPT !.weather = SameWeather(body)]
          /\ \E profile \in WeatherProfiles :
                 /\ us_colleges = ProfileColleges(profile)
                 /\ college_financials = ProfileFinancials(profile)
                 /\ daily_weather = ProfileWeather(profile)
          /\ universities_world = <<>>

NextSteady ==
    \/ SteadyColleges
    \/ SteadyUniversities
    \/ SteadyWeather

SpecSteady == InitSteady /\ [][NextSteady]_vars

\* the university and the weather script are run again and again: whoever
\* runs them does not stop while a run would still change the store
SpecSteadyFair ==
    SpecSteady /\ WF_vars(SteadyUniversities) /\ WF_vars(SteadyWeather)

\* the distinct ids a fetched page offers, records without id left out
PageIds(value) == {k \in OfferedKeys("store_college_page", value) : k # None}

\* a college run that reported R runs remaining at a total below 100 is
\* followed by a college run whose fetch returned the records the run before
\* fetched
NextSteadyCollegeRun ==
    /\ last.op = "colleges"
    /\ last.reported
    /\ last.report.total < 100
    /\ last'.op = "colleges"
    /\ ~last'.raised
    /\ last'.fetches[1].outcome.value # <<>>
    /\ last'.fetches[1].outcome.value = last.fetches[1].outcome.value

\* the run brought the table to 100 rows or used up one of the runs the run
\* before reported.  A run adds at most 25 rows (C1), so the R runs that follow
\* a report of R bring the table to 100 rows exactly when each of them does
\* this.
OneRunLess ==
    \/ Len(us_colleges') >= 100
    \/ /\ last'.reported
       /\ last'.report.runs_remaining <= last.report.runs_remaining - 1

\* C24 as stated: after a college run that ends below 100 and reports R runs
\* remaining, R further runs, each with a successful fetch from an API that
\* returns its pages in a stable order, bring the college count to 100.
C24_AsStated == [][ NextSteadyCollegeRun => OneRunLess ]_vars

\* C24, amended: the same, when the page the API returns holds at least 100
\* records with ids, the ids pairwise distinct.
C24_BoundedProgress ==
    [][ ( /\ NextSteadyCollegeRun
          /\ Cardinality(PageIds(last'.fetches[1].outcome.value)) >= 100 )
        => OneRunLess ]_vars

\* on a store of 24 rows of earlier runs, the fourth run against the full page
\* brought the table from 99 rows to 124
C24_Witness ==
    /\ last.op = "colleges"
    /\ upstream.colleges = FullListing
    /\ last.calls[1].before_len = 99
    /\ Len(us_colleges) = 124
    /\ us_colleges[25].id = FullListing[1].id
    /\ us_colleges[124].id = FullListing[100].id

\* the names of a country's list that a run would accept
ListNames(list) == {k \in OfferedKeys("store_universities", list) : Truthy(k)}

\* every country's list holds at least 25 names that are neither stored nor in
\* the list of another country
EnoughNames ==
    /\ upstream.universities # <<>>
    /\ \A c \in 1..Len(COUNTRIES_TO_FETCH) :
           Cardinality({n \in ListNames(upstream.universities[c]) :
                           /\ Matching(universities_world, "name", n) = {}
                           /\ \A d \in 1..Len(COUNTRIES_TO_FETCH) \ {c} :
                                  n \notin ListNames(upstream.universities[d])}) >= 25

WindowDates ==
    IF upstream.weather = <<>> THEN {}
    ELSE {upstream.weather[1].daily.time[k] :
              k \in 1..Len(upstream.weather[1].daily.time)}

\* every college with coordinates holds every date of the window
WindowStored ==
    \A i \in WithCoords : \A d \in WindowDates :
        MatchingWeather(daily_weather, us_colleges[i].id, d) # {}

\* C26 as stated: from any store with a college with coordinates and fewer
\* than 100 weather rows, when every fetch succeeds and returns the same date
\* window, the repeated runs bring the weather row count to 100, unless every
\* college with coordinates already holds every date of the window.
C26_AsStated ==
    ( /\ unit = "steady"
      /\ upstream.weather # <<>>
      /\ WithCoords # {}
      /\ Len(daily_weather) < 100 )
    ~> ( Len(daily_weather) >= 100 \/ WindowStored )

\* the natural key of a stored row of the controller's table
RowKey(u, row) ==
    IF u = "store_college_page" THEN row.id
    ELSE IF u = "store_universities" THEN row.name
    ELSE row.date

\* the places of a batch at which a novel key occurs for the first time: the
\* key is present, is not stored (for store_weather: not stored for college
\* `key`) and is the key of no earlier record of the batch
FirstNovel(u, offered, key) ==
    {p \in 1..Len(offered) :
        /\ ValidKey(u, KeyOf(u, offered[p]))
        /\ KeyOf(u, offered[p]) \notin PresentKeys(u, key)
        /\ \A q \in 1..(p - 1) : KeyOf(u, offered[q]) # KeyOf(u, offered[p])}

\* the j-th smallest element of a set of numbers
Nth(S, j) == CHOOSE p \in S : Cardinality({q \in S : q < p}) = j - 1

\* C27: a call of a controller appends one row for each of the first
\* min(25, number of distinct novel valid keys) novel keys of its batch, in the
\* order in which the keys first occur in the batch, and no other row: nothing
\* of the batch after the 25th accepted record is inserted.
C27_BatchOrder ==
    [][ last'.op \in StoreUnits =>
        LET offered == last'.calls[1].offered
            P == FirstNovel(unit, offered, last'.calls[1].key)
            n == Smaller(25, Cardinality(P))
        IN  /\ ~last'.raised
            /\ KeptRows(UnitTable, UnitTable')
            /\ Len(UnitTable') = Len(UnitTable) + n
            /\ \A j \in 1..n :
                   RowKey(unit, UnitTable'[Len(UnitTable) + j])
                       = KeyOf(unit, offered[Nth(P, j)])
            /\ unit = "store_weather" =>
                   \A j \in 1..n :
                       UnitTable'[Len(UnitTable) + j].college_id = last'.calls[1].key ]_vars

\* store_universities was given 30 names of which the first 3 were stored: it
\* stored the 4th to the 28th in that order and left the 29th and the 30th
C27_Witness ==
    /\ last.op = "store_universities"
    /\ last.calls[1].offered = UniBig
    /\ last.calls[1].before_len = SmallBatch
    /\ last.ret = MAX_INSERT_PER_RUN
    /\ universities_world[SmallBatch + 1].name = UniBig[SmallBatch + 1].name
    /\ universities_world[SmallBatch + MAX_INSERT_PER_RUN].name
           = UniBig[SmallBatch + MAX_INSERT_PER_RUN].name
    /\ Matching(universities_world, "name", UniBig[SmallBatch + MAX_INSERT_PER_RUN + 1].name)
           = {}

-----------------------------------------------------------------------------
(* University runs and weather runs from the empty store, the APIs answering *)
(* with records that are new to the store                                    *)

\* the colleges a first college run stores, all with coordinates
SeedColleges ==
    [k \in 1..(CANDIDATE_LIMIT + 1) |->
        [CollegeRec(k, "v1") EXCEPT !.lat = "42.28", !.lon = "-83.74"]]

\* the lengths of the lists and of the date windows the APIs answer with: one
\* short of the quota, and more than the quota
GrowLengths == {MAX_INSERT_PER_RUN - 1, BigBatch}

\* the college run that gives the weather runs their colleges
GrowColleges ==
    /\ unit = "grow"
    /\ database = COLLEGES_DATABASE_NAME
    /\ us_colleges = <<>>
    /\ CollegesMain(Ok([results |-> SeedColleges]))
    /\ UNCHANGED <<unit, database, upstream, conns, universities_world, daily_weather,
                   lookupVars>>

\* gather_universities.main: the first fetch fails or returns names that are
\* not stored, the fetch of the next country returns names that are not stored
GrowUniversities ==
    /\ unit = "grow"
    /\ database = UNIVERSITIES_DATABASE_NAME
    /\ \E x1 \in {HttpExchange(None, 404, TRUE, <<>>)}
                 \cup {Ok(UniRange(Len(universities_world) + 1, n, "v1")) :
                          n \in GrowLengths} :
       \E x2 \in {Ok(UniRange(Len(universities_world) + 1, n, "v1")) :
                     n \in GrowLengths} :
           UniversitiesMain(x1, x2)
    /\ UNCHANGED <<unit, database, upstream, conns, us_colleges, college_financials,
                   daily_weather, lookupVars>>

\* what a weather fetch meets: a network error or a window of dates
GrowWeatherExchanges ==
    {HttpExchange("ConnectionError", 0, FALSE, NoDaily)}
    \cup {Ok(Daily(Days(1, n), "t1")) : n \in GrowLengths}

\* gather_weather.main: the fetch for the first candidate meets one exchange,
\* the fetches for the other candidates another
GrowWeather ==
    /\ unit = "grow"
    /\ database = WEATHER_DATABASE_NAME
    /\ \E colleges \in {WeatherCandidates(us_colleges, daily_weather)} :
       \E x \in GrowWeatherExchanges : \E y \in GrowWeatherExchanges :
           WeatherMain(colleges, [k \in 1..Len(colleges) |-> IF k = 1 THEN x ELSE y])
    /\ UNCHANGED <<unit, database, upstream, conns, us_colleges, college_financials,
                   universities_world, lookupVars>>

InitGrow ==
    /\ unit = "grow"
    /\ database \in {UNIVERSITIES_DATABASE_NAME, WEATHER_DATABASE_NAME}
    /\ EmptyStore
    /\ last = NoLast
    /\ conns = NoConns
    /\ upstream = NoUpstream

NextGrow == GrowColleges \/ GrowUniversities \/ GrowWeather

SpecGrow == InitGrow /\ [][NextGrow]_vars

\* C28: in every state reached from the empty store by university runs and
\* weather runs, universities_world holds at most 124 rows and daily_weather
\* holds at most 124 rows, and a run that starts with 100 rows or more makes
\* no fetch.
C28_RowCaps ==
    [][ /\ Len(universities_world') <= 124
        /\ Len(daily_weather') <= 124
        /\ ( last'.op = "universities" /\ Len(universities_world) >= 100 )
            => ( last'.fetches = <<>> /\ universities_world' = universities_world )
        /\ ( last'.op = "weather" /\ Len(daily_weather) >= 100 )
            => ( last'.fetches = <<>> /\ daily_weather' = daily_weather ) ]_vars

\* the university table of 99 rows was brought to 124 by one run, and the run
\* after it returned without a fetch
C28_Witness ==
    /\ last.op = "universities"
    /\ last.early = "target_reached"
    /\ last.fetches = <<>>
    /\ Len(universities_world) = 124

\* the weather table of 99 rows was brought to 124 by one run, and the run
\* after it returned without a fetch
C28_WitnessWeather ==
    /\ last.op = "weather"
    /\ last.early = "target_reached"
    /\ last.fetches = <<>>
    /\ Len(daily_weather) = 124

====
